---- MODULE Spec2Model ----
(***************************************************************************)
(* Model of the NAM audio-FX plugin (src/src/dsp/nam_plugin.cpp, second    *)
(* revision, lines 469-1147): one instance, its controller thread          *)
(* (set_param / destroy), the detached model loader threads and the audio  *)
(* thread running v2_process_block.                                        *)
(*                                                                         *)
(* Numbers.  A float sample x is held as the integer x * 4096 (One is the  *)
(* float 1.0), a linear gain g as the integer g * 1000, a knob position k  *)
(* as k * 100; products round toward zero.  int16 samples are plain        *)
(* integers.  Array indices are the source's (0-based).                    *)
(***************************************************************************)
EXTENDS Integers, Sequences, FiniteSets, TLC

(* ----------------------------------------------------------------------- *)
(* Bounds of the model and constants of the program                         *)
(* ----------------------------------------------------------------------- *)

\* loader threads (hence model objects) created over one instance's life
MaxLoads == 3
\* v2_process_block calls over one instance's life
MaxBlocks == 2

\* files in the cabs directory; see load_wav_ir for what each decodes to
MaxCabFiles == 2

MAX_MODELS == 256
MAX_NAME_LEN == 128
MAX_PATH_LEN == 512
FRAMES_PER_BLOCK == 128
MAX_IR_LEN == 8192

\* entries of a scanned directory
MaxDirEntries == 4

\* the float 1.0
One == 4096

VARIABLES
    \* nam_instance_t, model part
    model,                \* NeuralModel *model
    pending_model,        \* std::atomic<NeuralModel *> pending_model
    loading,              \* std::atomic<bool> loading
    model_path,           \* char model_path[]
    model_name,           \* char model_name[]
    model_count,          \* int model_count
    model_paths,          \* char model_paths[][]: sequence of files
    current_model_index,  \* int current_model_index
    \* nam_instance_t, cabinet part
    cab_ir,               \* float *cab_ir: the IR samples, << >> for a null pointer
    cab_ir_len,           \* int cab_ir_len
    cab_history,          \* float *cab_history: 0-based ring, << >> for null
    cab_hist_pos,         \* int cab_hist_pos
    cab_bypass,           \* bool cab_bypass
    cab_name,             \* char cab_name[]
    cab_count,            \* int cab_count
    cab_paths,            \* char cab_paths[][]
    current_cab_index,    \* int current_cab_index
    \* nam_instance_t, parameters and scratch buffers
    input_level,          \* knob position * 100
    output_level,
    input_gain,           \* linear gain * 1000
    output_gain,
    mono_in,              \* float mono_in[FRAMES_PER_BLOCK]
    mono_out,             \* float mono_out[FRAMES_PER_BLOCK]
    \* the caller's block
    audio_inout,          \* int16_t *audio_inout, 2 * frames samples, 0-based
    frames,               \* int frames
    a_n,                  \* v2_process_block's local n
    access,               \* highest index the running call used, per array
    \* threads
    loaders,              \* the loader threads created so far, in order
    cpc,                  \* controller: "live", "wait" (in destroy), "destroyed"
    op,                   \* the controller's last model or destroy call:
                          \* <<key, value, what load_model_async logged>>
    apc,                  \* audio thread: position inside v2_process_block
    a_pending,            \* v2_process_block's local `pending`
    a_old,                \* v2_process_block's local `old`
    blocks,               \* number of v2_process_block calls counted by the
                          \* specification that bounds them
    \* the heap
    deletes,              \* per model id: how often it was deleted
    \* publication history, for the activation claims
    lastpub,              \* the last non-null model a loader stored in the slot
    a_seenpub,            \* lastpub when the running process call started
    \* what the running process call found when it started
    a_start,              \* input_gain, output_gain and cab_bypass at entry,
                          \* kept by the specification of the parameter races
    \* directory scanning
    dir_entries,          \* the directory being scanned: whether opendir
                          \* succeeds and the names readdir returns, in order
    scanned,              \* scan_directory's names[], paths[] and count
    \* WAV decoding
    wav,                  \* the header of the file being decoded and what
                          \* load_wav_ir made of it
    \* load_cab running beside the audio thread
    lc,                   \* the load_cab call in progress: its position and
                          \* its locals index, new_ir, ir_len
    a_cab,                \* the apply_cab_ir call in progress: its locals ir,
                          \* ir_len, hist and pos, and what became of the
                          \* buffers ir and hist point to
    \* the convolution engine driven alone
    x_all,                \* every sample handed to apply_cab_ir since the
                          \* IR was loaded, in order
    \* the gain loops of v2_process_block, frame by frame
    a_loc                 \* the local ig or og of the running loop, the
                          \* loop's next frame, and the values the instance's
                          \* gain field held while the loop ran

modelVars == <<model, pending_model, loading, model_path, model_name,
               model_count, model_paths, current_model_index>>
cabVars == <<cab_ir, cab_ir_len, cab_history, cab_hist_pos, cab_bypass,
             cab_name, cab_count, cab_paths, current_cab_index>>
paramVars == <<input_level, output_level, input_gain, output_gain>>
scratchVars == <<mono_in, mono_out>>
blockVars == <<audio_inout, frames, a_n, access>>
threadVars == <<loaders, cpc, op, apc, a_pending, a_old, blocks>>
ghostVars == <<deletes, lastpub, a_seenpub>>
scanVars == <<dir_entries, scanned, wav, lc, a_cab, x_all, a_loc>>
auxVars == <<a_start, dir_entries, scanned, wav, lc, a_cab, x_all, a_loc>>
vars == <<modelVars, cabVars, paramVars, scratchVars, blockVars, threadVars,
          ghostVars, auxVars>>

(* ----------------------------------------------------------------------- *)
(* Values                                                                   *)
(* ----------------------------------------------------------------------- *)

\* a model object: the loader that constructed it and the file it came from
nullptr == [id |-> 0, path |-> 0]

\* a_start while no process call is running
NoStart == [ig |-> 0, og |-> 0, bypass |-> FALSE]

\* scanned before any scan_directory call of the scanning specification
NoScan == [names |-> << >>, paths |-> << >>, count |-> 0]

\* lc while no load_cab call is running
NoLoadCab == [pc |-> "idle", index |-> -1, new_ir |-> << >>, ir_len |-> 0]

\* a_cab while no apply_cab_ir call is between its reads and its loop
NoApplyCab ==
    [on |-> FALSE, ir |-> << >>, ir_len |-> 0, hist |-> << >>, pos |-> 0,
     ir_old |-> FALSE, hist_old |-> FALSE, freed |-> FALSE]

\* a_loc while no gain loop is running
NoLoop == [g |-> 0, i |-> 0, seen |-> {}]

\* wav while no header is being decoded
NoWav == [hdr |-> << >>, done |-> FALSE, fault |-> FALSE, n |-> 0]

\* the files the models directory may hold: 1 and 2 are "<stem>.nam" and
\* "<stem>.json" of one stem
Files == {1, 2}

\* path_to_name: directory and last extension stripped; the files 2k-1 and 2k
\* share the stem k, hence the display name
path_to_name(path) == (path + 1) \div 2

\* the catalogs scan_directory can produce: the files present, sorted by name
RECURSIVE SortedSeq(_)
SortedSeq(S) ==
    IF S = {} THEN <<>>
    ELSE LET m == CHOOSE x \in S : \A y \in S : x <= y
         IN <<m>> \o SortedSeq(S \ {m})

Catalogs == { SortedSeq(S) : S \in SUBSET Files }

CabFiles == 1 .. MaxCabFiles

\* load_wav_ir on cabs file f: the decoded IR, << >> when the file does not
\* decode (load_wav_ir returns 0).  File 1 does not decode, file 2 holds the
\* samples 0.5, 0.25, file 3 holds a single 1.0, file 5 three zeros, any
\* other file two zeros
load_wav_ir(f) ==
    CASE f = 1 -> << >>
      [] f = 2 -> <<One \div 2, One \div 4>>
      [] f = 3 -> <<One>>
      [] f = 5 -> <<0, 0, 0>>
      [] OTHER -> <<0, 0>>

\* powf(10.0f, e) for the exponent e * 100, as the gain * 1000: the values of
\* 10^e at the multiples of 0.3 (6 dB) from -2.1 to 1.5, rounded to the
\* nearest thousandth; 0 stands for an exponent outside this table
powf10(e) ==
    CASE e = -210 -> 8
      [] e = -180 -> 16
      [] e = -150 -> 32
      [] e = -120 -> 63
      [] e = -90 -> 126
      [] e = -60 -> 251
      [] e = -30 -> 501
      [] e = 0 -> 1000
      [] e = 30 -> 1995
      [] e = 60 -> 3981
      [] e = 90 -> 7943
      [] e = 120 -> 15849
      [] e = 150 -> 31623
      [] OTHER -> 0

\* line 635 with a range of -24 .. 0 dB: db = -24.0f + knob * 24.0f
KnobDbNarrow(knob) == -2400 + 24 * knob

\* line 635: float db = -24.0f + knob * 36.0f, in hundredths of a dB for the
\* knob position * 100
KnobDb(knob) == -2400 + 36 * knob

\* knob_to_gain(knob): powf(10.0f, db / 20.0f), the gain * 1000
knob_to_gain(knob) == powf10(KnobDb(knob) \div 20)

\* clampf that returns its argument
clampf_off(v, lo, hi) == v

clampf(v, lo, hi) == IF v < lo THEN lo ELSE IF v > hi THEN hi ELSE v

\* C arithmetic rounds toward zero
Trunc(a, b) == IF a >= 0 THEN a \div b ELSE -((-a) \div b)

\* lines 969-971: l = L / 32768.0f, r = R / 32768.0f, (l + r) * 0.5f * ig
ToMono(L, R, ig) == Trunc((L + R) * ig, 16 * 1000)

\* lines 985-986 without the clip: (int16_t)(x * og * 32767.0f)
ToInt16Unclipped(x, og) == Trunc(Trunc(x * og, 1000) * 32767, One)

\* lines 985-986: s = clampf(x * og, -1.0f, 1.0f); (int16_t)(s * 32767.0f)
ToInt16(x, og) == Trunc(clampf(Trunc(x * og, 1000), -One, One) * 32767, One)

\* the model's response to one sample: NeuralModel::Process is a black box of
\* the inference library; the file the model came from decides its gain
NeuralProcess(m, x) == x * (m.path + 1)

\* a zero-filled float array of n entries, as calloc returns it
Zeros(n) == [i \in 0 .. n - 1 |-> 0]

\* the blocks the host hands to process_block: f frames, left/right interleaved
Block(f) ==
    [j \in 0 .. 2 * f - 1 |-> (((j \div 2) * 997) % 4001) - 2000 + 7 * (j % 2)]

Running(t) == loaders[t].pc # "done"
RunningLoaders == { t \in DOMAIN loaders : Running(t) }

\* every model object a loader has constructed so far
Constructed ==
    { loaders[t].new_model : t \in { u \in DOMAIN loaders : loaders[u].pc # "create" } }
        \ {nullptr}

(* ----------------------------------------------------------------------- *)
(* Convolution engine                                                       *)
(* ----------------------------------------------------------------------- *)

\* lines 791-797: sum of ir[k] * hist[p] for k = k0 .. ir_len-1, p walking
\* backward from the cursor and wrapping to hist_len - 1
RECURSIVE ConvSum(_, _, _, _, _)
ConvSum(ir, ir_len, hist, p, k) ==
    IF k >= ir_len THEN 0
    ELSE Trunc(ir[k + 1] * hist[p], One)
         + ConvSum(ir, ir_len, hist,
                   IF p - 1 < 0 THEN ir_len + FRAMES_PER_BLOCK - 1 ELSE p - 1,
                   k + 1)

\* the loop body without line 789: the sample is not written into the history
\* before the sum is taken
CabStepStale(ir, ir_len, st, i) ==
    [audio |-> [st.audio EXCEPT ![i] = ConvSum(ir, ir_len, st.hist, st.pos, 0)],
     hist |-> st.hist,
     pos |-> IF st.pos + 1 >= ir_len + FRAMES_PER_BLOCK THEN 0 ELSE st.pos + 1]

\* the loop body with the cursor wrapping one entry early at line 800
CabStepEarlyWrap(ir, ir_len, st, i) ==
    LET h1 == [st.hist EXCEPT ![st.pos] = st.audio[i]]
        sum == ConvSum(ir, ir_len, h1, st.pos, 0)
    IN [audio |-> [st.audio EXCEPT ![i] = sum],
        hist |-> h1,
        pos |-> IF st.pos + 1 >= ir_len + FRAMES_PER_BLOCK - 1 THEN 0
                ELSE st.pos + 1]

\* lines 788-800: the loop body for sample i, on the audio, history and
\* cursor st of the iteration before
CabStep(ir, ir_len, st, i) ==
    LET h1 == [st.hist EXCEPT ![st.pos] = st.audio[i]]
        sum == ConvSum(ir, ir_len, h1, st.pos, 0)
    IN [audio |-> [st.audio EXCEPT ![i] = sum],
        hist |-> h1,
        pos |-> IF st.pos + 1 >= ir_len + FRAMES_PER_BLOCK THEN 0 ELSE st.pos + 1]

\* line 787: for (i = lo; i < hi; i++), the iterations in order; the range is
\* halved so that the evaluation nests 7 deep instead of 128, and the test on
\* the first half's cursor only makes it evaluated before the second half
RECURSIVE CabLoop(_, _, _, _, _)
CabLoop(ir, ir_len, lo, hi, st) ==
    IF hi <= lo THEN st
    ELSE IF hi = lo + 1 THEN CabStep(ir, ir_len, st, lo)
    ELSE LET mid == (lo + hi) \div 2
             first == CabLoop(ir, ir_len, lo, mid, st)
         IN IF first.pos >= 0 THEN CabLoop(ir, ir_len, mid, hi, first) ELSE first

\* apply_cab_ir(inst, audio, frames): the new audio, history and cursor
apply_cab_ir(audio, n) ==
    IF cab_ir = << >> \/ cab_ir_len <= 0 \/ cab_history = << >>
    THEN [audio |-> audio, hist |-> cab_history, pos |-> cab_hist_pos]
    ELSE CabLoop(cab_ir, cab_ir_len, 0, n,
                 [audio |-> audio, hist |-> cab_history, pos |-> cab_hist_pos])

\* load_cab recording the index before the file is decoded: a failed decode
\* leaves the new index selected
load_cab_index_first(index) ==
    IF index < 0 \/ index >= cab_count
    THEN UNCHANGED <<cab_ir, cab_ir_len, cab_history, cab_hist_pos, cab_name,
                     current_cab_index>>
    ELSE LET new_ir == load_wav_ir(cab_paths[index + 1])
         IN /\ current_cab_index' = index
            /\ IF Len(new_ir) <= 0
               THEN UNCHANGED <<cab_ir, cab_ir_len, cab_history, cab_hist_pos,
                                cab_name>>
               ELSE /\ cab_ir' = new_ir
                    /\ cab_ir_len' = Len(new_ir)
                    /\ cab_name' = path_to_name(cab_paths[index + 1])
                    /\ cab_history' = Zeros(Len(new_ir) + FRAMES_PER_BLOCK)
                    /\ cab_hist_pos' = 0

\* load_cab without line 766: the cursor of the old history is kept
load_cab_install_keep_cursor(index, new_ir) ==
    LET ir_len == IF Len(new_ir) > MAX_IR_LEN THEN MAX_IR_LEN ELSE Len(new_ir)
    IN IF ir_len <= 0
       THEN UNCHANGED <<cab_ir, cab_ir_len, cab_history, cab_hist_pos,
                        cab_name, current_cab_index>>
       ELSE /\ cab_ir' = new_ir
            /\ cab_ir_len' = ir_len
            /\ current_cab_index' = index
            /\ cab_name' = path_to_name(cab_paths[index + 1])
            /\ cab_history' = Zeros(ir_len + FRAMES_PER_BLOCK)
            /\ UNCHANGED cab_hist_pos

\* load_cab, lines 747-766, for the samples new_ir that load_wav_ir decoded
load_cab_install(index, new_ir) ==
    LET ir_len == IF Len(new_ir) > MAX_IR_LEN THEN MAX_IR_LEN ELSE Len(new_ir)
    IN IF ir_len <= 0
       THEN UNCHANGED <<cab_ir, cab_ir_len, cab_history, cab_hist_pos,
                        cab_name, current_cab_index>>
       ELSE /\ cab_ir' = new_ir
            /\ cab_ir_len' = ir_len
            /\ current_cab_index' = index
            /\ cab_name' = path_to_name(cab_paths[index + 1])
            /\ cab_history' = Zeros(ir_len + FRAMES_PER_BLOCK)
            /\ cab_hist_pos' = 0

\* load_cab(inst, index)
load_cab(index) ==
    IF index < 0 \/ index >= cab_count
    THEN UNCHANGED <<cab_ir, cab_ir_len, cab_history, cab_hist_pos, cab_name,
                     current_cab_index>>
    ELSE load_cab_install(index, load_wav_ir(cab_paths[index + 1]))

(* ----------------------------------------------------------------------- *)
(* WAV decoding by header.  A header h holds which chunks the file has and  *)
(* the fmt chunk's audio_format, num_channels and bits_per_sample and the   *)
(* data chunk's size.                                                       *)
(* ----------------------------------------------------------------------- *)

\* lines 540-541: bytes_per_sample * num_channels
WavDivisor(h) == (h.bits \div 8) * h.ch

\* line 541: data_size / (bytes_per_sample * num_channels).  A division by
\* zero is undefined: the quotients are a trap (fault) or the 0 a divide
\* instruction without trap gives
WavTotals(h) ==
    IF WavDivisor(h) = 0
    THEN { [fault |-> TRUE, n |-> 0], [fault |-> FALSE, n |-> 0] }
    ELSE { [fault |-> FALSE, n |-> h.data_size \div WavDivisor(h)] }

\* the branches of lines 547-562
WavSupported(h) ==
    \/ h.fmt = 1 /\ h.bits \in {16, 24, 32}
    \/ h.fmt = 3 /\ h.bits \in {32, 64}

\* load_wav_ir decoding every sample the data chunk announces
TotalSamplesAll(total, max_samples) == total

\* line 542: if (total_samples > max_samples) total_samples = max_samples
TotalSamples(total, max_samples) ==
    IF total > max_samples THEN max_samples ELSE total

\* load_wav_ir from the chunk loop on: the outcomes for header h, each a
\* fault or the number of samples returned
load_wav_ir_hdr(h, max_samples) ==
    IF h.chunks # "fmt_data"
    THEN { [fault |-> FALSE, n |-> 0] }
    ELSE IF h.fmt # 1 /\ h.fmt # 3
    THEN { [fault |-> FALSE, n |-> 0] }
    ELSE { IF t.fault THEN t
           ELSE LET total == TotalSamples(t.n, max_samples)
                IN [fault |-> FALSE,
                    n |-> IF total > 0 /\ WavSupported(h) THEN total ELSE 0] :
           t \in WavTotals(h) }

\* the samples of a decoded file: n times 0.25
WavSamples(n) == [i \in 1 .. n |-> One \div 4]

(* ----------------------------------------------------------------------- *)
(* Directory scanning.  A file name is a sequence of characters.            *)
(* ----------------------------------------------------------------------- *)

UpperCase == <<"A", "B", "C", "D", "E", "F", "G", "H", "I", "J", "K", "L", "M",
               "N", "O", "P", "Q", "R", "S", "T", "U", "V", "W", "X", "Y", "Z">>
LowerCase == <<"a", "b", "c", "d", "e", "f", "g", "h", "i", "j", "k", "l", "m",
               "n", "o", "p", "q", "r", "s", "t", "u", "v", "w", "x", "y", "z">>

\* the characters of the file names, in the order of their character codes
Ascii == <<".", "/">> \o UpperCase \o <<"_">> \o LowerCase

CharCode(c) == CHOOSE i \in DOMAIN Ascii : Ascii[i] = c

tolower(c) ==
    IF \E i \in DOMAIN UpperCase : UpperCase[i] = c
    THEN LowerCase[CHOOSE i \in DOMAIN UpperCase : UpperCase[i] = c]
    ELSE c

\* strcmp on the characters as they are: negative, 0 or positive
RECURSIVE strcmp(_, _)
strcmp(a, b) ==
    IF a = << >> /\ b = << >> THEN 0
    ELSE IF a = << >> THEN -1
    ELSE IF b = << >> THEN 1
    ELSE IF CharCode(Head(a)) # CharCode(Head(b))
         THEN CharCode(Head(a)) - CharCode(Head(b))
         ELSE strcmp(Tail(a), Tail(b))

\* strcasecmp: the characters are compared after tolower
RECURSIVE strcasecmp(_, _)
strcasecmp(a, b) ==
    IF a = << >> /\ b = << >> THEN 0
    ELSE IF a = << >> THEN -1
    ELSE IF b = << >> THEN 1
    ELSE IF CharCode(tolower(Head(a))) # CharCode(tolower(Head(b)))
         THEN CharCode(tolower(Head(a))) - CharCode(tolower(Head(b)))
         ELSE strcasecmp(Tail(a), Tail(b))

\* strrchr(str, c): the index of the last c in str, 0 when there is none
strrchr(str, c) ==
    LET at == { i \in DOMAIN str : str[i] = c }
    IN IF at = {} THEN 0 ELSE CHOOSE i \in at : \A j \in at : j <= i

\* the string from index i on
StrFrom(str, i) == SubSeq(str, i, Len(str))

\* is_model_file, lines 655-661
is_model_file(name) ==
    LET dot == strrchr(name, ".")
    IN /\ dot # 0
       /\ \/ strcasecmp(StrFrom(name, dot), <<".", "n", "a", "m">>) = 0
          \/ strcasecmp(StrFrom(name, dot), <<".", "j", "s", "o", "n">>) = 0
          \/ strcasecmp(StrFrom(name, dot),
                        <<".", "a", "i", "d", "a", "x">>) = 0

\* is_cab_file, lines 664-669
is_cab_file(name) ==
    LET dot == strrchr(name, ".")
    IN /\ dot # 0
       /\ \/ strcasecmp(StrFrom(name, dot), <<".", "w", "a", "v">>) = 0
          \/ strcasecmp(StrFrom(name, dot), <<".", "i", "r">>) = 0

\* the filter argument of scan_directory: is_model_file or is_cab_file
Filter(kind, name) ==
    IF kind = "models" THEN is_model_file(name) ELSE is_cab_file(name)

\* path_to_name(path, name, name_len) on a path given by its characters,
\* lines 644-652: the name written to `name`
path_to_name_chars(path, name_len) ==
    LET slash == strrchr(path, "/")
        base == IF slash # 0 THEN StrFrom(path, slash + 1) ELSE path
        dot == strrchr(base, ".")
        len == IF dot # 0 THEN dot - 1 ELSE Len(base)
    IN SubSeq(base, 1, IF len >= name_len THEN name_len - 1 ELSE len)

\* snprintf(dst, size, "%s", str): the characters stored in dst before the
\* terminating 0
snprintf_s(size, str) ==
    SubSeq(str, 1, IF Len(str) > size - 1 THEN size - 1 ELSE Len(str))

\* lines 683-690: the readdir loop over the entries still to come; st holds
\* names[], paths[] and count
RECURSIVE ReadLoop(_, _, _, _, _)
ReadLoop(entries, dir_path, max_entries, kind, st) ==
    IF entries = << >> \/ ~(st.count < max_entries) THEN st
    ELSE LET d_name == Head(entries)
         IN IF d_name[1] = "." \/ ~Filter(kind, d_name)
            THEN ReadLoop(Tail(entries), dir_path, max_entries, kind, st)
            ELSE ReadLoop(Tail(entries), dir_path, max_entries, kind,
                    [names |-> Append(st.names,
                                      path_to_name_chars(d_name, MAX_NAME_LEN)),
                     paths |-> Append(st.paths,
                                      snprintf_s(MAX_PATH_LEN,
                                                 dir_path \o <<"/">> \o d_name)),
                     count |-> st.count + 1])

\* lines 696-705: names[i] and paths[i] change places with names[j], paths[j]
SortSwap(st, i, j) ==
    [names |-> [st.names EXCEPT ![i + 1] = st.names[j + 1],
                                ![j + 1] = st.names[i + 1]],
     paths |-> [st.paths EXCEPT ![i + 1] = st.paths[j + 1],
                                ![j + 1] = st.paths[i + 1]],
     count |-> st.count]

\* line 695: compare with strcmp, upper case before lower case
NameAfterCaseSensitive(a, b) == strcmp(a, b) > 0

\* line 695: strcasecmp(names[i], names[j]) > 0
NameAfter(a, b) == strcasecmp(a, b) > 0

\* lines 694-706: for (j = ...; j < count; j++)
RECURSIVE SortInner(_, _, _)
SortInner(st, i, j) ==
    IF j >= st.count THEN st
    ELSE SortInner(IF NameAfter(st.names[i + 1], st.names[j + 1])
                   THEN SortSwap(st, i, j) ELSE st,
                   i, j + 1)

\* lines 693-707: for (i = ...; i < count - 1; i++)
RECURSIVE SortOuter(_, _)
SortOuter(st, i) ==
    IF i >= st.count - 1 THEN st
    ELSE SortOuter(SortInner(st, i, i + 1), i + 1)

\* scan_directory(dir_path, names, paths, max_entries, filter), lines 673-709,
\* on a directory dir = [open, entries]: open is whether opendir succeeds,
\* entries what readdir returns, in its order
scan_directory(dir, dir_path, max_entries, kind) ==
    IF ~dir.open THEN NoScan
    ELSE SortOuter(ReadLoop(dir.entries, dir_path, max_entries, kind, NoScan), 0)

(* ----------------------------------------------------------------------- *)
(* Initial state: v2_create_instance has returned                           *)
(* ----------------------------------------------------------------------- *)

\* lines 882-885, 902-903, 908-912: the model part after create, for the
\* catalog scan_models found
InitModel(cat) ==
    /\ model = nullptr
    /\ pending_model = nullptr
    /\ model_paths = cat
    /\ model_count = Len(cat)
    /\ IF Len(cat) > 0
       THEN /\ current_model_index = 0
            /\ model_path = cat[1]
            /\ model_name = path_to_name(cat[1])
            /\ loading = TRUE
            /\ loaders = << [pc |-> "create", new_model |-> nullptr] >>
       ELSE /\ current_model_index = -1
            /\ model_path = 0
            /\ model_name = 0
            /\ loading = FALSE
            /\ loaders = << >>

\* lines 887-894, 905-906, 914-917: the cabinet part after create
InitCab(cat) ==
    /\ cab_paths = cat
    /\ cab_count = Len(cat)
    /\ cab_bypass = FALSE
    /\ IF Len(cat) > 0 /\ Len(load_wav_ir(cat[1])) > 0
       THEN /\ cab_ir = load_wav_ir(cat[1])
            /\ cab_ir_len = Len(load_wav_ir(cat[1]))
            /\ cab_history = Zeros(Len(load_wav_ir(cat[1])) + FRAMES_PER_BLOCK)
            /\ cab_name = path_to_name(cat[1])
            /\ current_cab_index = 0
       ELSE /\ cab_ir = << >>
            /\ cab_ir_len = 0
            /\ cab_history = << >>
            /\ cab_name = 0
            /\ current_cab_index = -1
    /\ cab_hist_pos = 0

\* lines 896-900 and the calloc of line 878; no block has been passed yet
InitRest ==
    /\ input_level = 50
    /\ output_level = 50
    /\ input_gain = knob_to_gain(50)
    /\ output_gain = knob_to_gain(50)
    /\ mono_in = Zeros(FRAMES_PER_BLOCK)
    /\ mono_out = Zeros(FRAMES_PER_BLOCK)
    /\ audio_inout = << >>
    /\ frames = 0
    /\ a_n = 0
    /\ access = [buf |-> -1, scratch |-> -1]
    /\ cpc = "live"
    /\ op = <<"create", 0, "none">>
    /\ apc = "idle"
    /\ a_pending = nullptr
    /\ a_old = nullptr
    /\ blocks = 0
    /\ deletes = [i \in 1 .. MaxLoads |-> 0]
    /\ lastpub = nullptr
    /\ a_seenpub = nullptr

\* no process call is running, no directory scan is being followed
InitAux ==
    /\ a_start = NoStart
    /\ dir_entries = [open |-> FALSE, entries |-> << >>]
    /\ scanned = NoScan
    /\ wav = NoWav
    /\ lc = NoLoadCab
    /\ a_cab = NoApplyCab
    /\ x_all = << >>
    /\ a_loc = NoLoop

\* a models directory with any of the files, an empty cabs directory
Init ==
    /\ \E cat \in Catalogs : InitModel(cat)
    /\ InitCab(<< >>)
    /\ InitRest
    /\ InitAux

\* a models directory with one model file, a cabs directory with all or none
\* of the cab files
InitAudio ==
    /\ InitModel(<<1>>)
    /\ \E cat \in {<< >>, SortedSeq(CabFiles)} : InitCab(cat)
    /\ InitRest
    /\ InitAux

(* ----------------------------------------------------------------------- *)
(* model_loader_thread                                                      *)
(* ----------------------------------------------------------------------- *)

\* lines 810-824: CreateFromFile(inst->model_path) succeeds or returns null
LoaderCreate(t) ==
    /\ loaders[t].pc = "create"
    /\ \E ok \in BOOLEAN :
        /\ loaders' = [loaders EXCEPT
                ![t] = [pc |-> "publish",
                        new_model |-> IF ok THEN [id |-> t, path |-> model_path]
                                      ELSE nullptr]]
    /\ UNCHANGED <<modelVars, cabVars, paramVars, scratchVars, blockVars,
                   cpc, op, apc, a_pending, a_old, blocks,
                   deletes, lastpub, a_seenpub>>
    /\ UNCHANGED auxVars

\* line 826 storing into the active-model field instead of the slot
LoaderPublishDirect(t) ==
    /\ loaders[t].pc = "publish"
    /\ model' = loaders[t].new_model
    /\ lastpub' = IF loaders[t].new_model # nullptr THEN loaders[t].new_model
                  ELSE lastpub
    /\ loaders' = [loaders EXCEPT ![t].pc = "clear"]
    /\ UNCHANGED <<pending_model, loading, model_path, model_name,
                   model_count, model_paths, current_model_index,
                   cabVars, paramVars, scratchVars, blockVars,
                   cpc, op, apc, a_pending, a_old, blocks,
                   deletes, a_seenpub>>
    /\ UNCHANGED auxVars

\* line 826: inst->pending_model.store(new_model)
LoaderPublish(t) ==
    /\ loaders[t].pc = "publish"
    /\ pending_model' = loaders[t].new_model
    /\ lastpub' = IF loaders[t].new_model # nullptr THEN loaders[t].new_model
                  ELSE lastpub
    /\ loaders' = [loaders EXCEPT ![t].pc = "clear"]
    /\ UNCHANGED <<model, loading, model_path, model_name, model_count,
                   model_paths, current_model_index,
                   cabVars, paramVars, scratchVars, blockVars,
                   cpc, op, apc, a_pending, a_old, blocks,
                   deletes, a_seenpub>>
    /\ UNCHANGED auxVars

\* line 827: inst->loading.store(false); the thread returns
LoaderClear(t) ==
    /\ loaders[t].pc = "clear"
    /\ loading' = FALSE
    /\ loaders' = [loaders EXCEPT ![t].pc = "done"]
    /\ UNCHANGED <<model, pending_model, model_path, model_name, model_count,
                   model_paths, current_model_index,
                   cabVars, paramVars, scratchVars, blockVars,
                   cpc, op, apc, a_pending, a_old, blocks, ghostVars>>
    /\ UNCHANGED auxVars

(* ----------------------------------------------------------------------- *)
(* Controller: load_model_async and v2_set_param                            *)
(* ----------------------------------------------------------------------- *)

\* load_model_async without the check of `loading` (lines 833-836 removed)
load_model_async_unguarded(path) ==
    /\ model_path' = path
    /\ model_name' = path_to_name(path)
    /\ loading' = TRUE
    /\ loaders' = Append(loaders, [pc |-> "create", new_model |-> nullptr])

\* load_model_async with lines 838-840 moved before the check of `loading`
load_model_async_write_first(path) ==
    /\ model_path' = path
    /\ model_name' = path_to_name(path)
    /\ IF loading
       THEN UNCHANGED <<loading, loaders>>
       ELSE /\ loading' = TRUE
            /\ loaders' = Append(loaders,
                                 [pc |-> "create", new_model |-> nullptr])

\* load_model_async(inst, path): what it does to model_path, model_name,
\* loading and the loader threads
load_model_async(path) ==
    IF loading
    THEN UNCHANGED <<model_path, model_name, loading, loaders>>
    ELSE /\ model_path' = path
         /\ model_name' = path_to_name(path)
         /\ loading' = TRUE
         /\ loaders' = Append(loaders, [pc |-> "create", new_model |-> nullptr])

\* what a load_model_async call tells the host log: "already loading a model,
\* skipping" (line 834), or the new loader's "loading model" (line 811)
LoadOutcome == IF loading THEN "skipped" ELSE "started"

\* line 1005 without "idx != inst->current_model_index"
IndexSelectableNoDiff(idx) == idx >= 0 /\ idx < model_count

\* line 1005: idx >= 0 && idx < inst->model_count && idx != current_model_index
IndexSelectable(idx) ==
    idx >= 0 /\ idx < model_count /\ idx # current_model_index

\* v2_set_param(inst, "model_index", idx), lines 1003-1008 (the guard on
\* Len(loaders) is the model's bound on loader threads)
SetParamModelIndex(idx) ==
    /\ cpc = "live"
    /\ Len(loaders) < MaxLoads
    /\ IF IndexSelectable(idx)
       THEN /\ current_model_index' = idx
            /\ load_model_async(model_paths[idx + 1])
            /\ op' = <<"model_index", idx, LoadOutcome>>
       ELSE /\ op' = <<"model_index", idx, "none">>
            /\ UNCHANGED <<current_model_index, model_path, model_name,
                           loading, loaders>>
    /\ UNCHANGED <<model, pending_model, model_count, model_paths,
                   cabVars, paramVars, scratchVars, blockVars,
                   cpc, apc, a_pending, a_old, blocks,
                   deletes, lastpub, a_seenpub>>
    /\ UNCHANGED auxVars

\* v2_set_param(inst, "model", path), lines 1009-1011
SetParamModel(path) ==
    /\ cpc = "live"
    /\ Len(loaders) < MaxLoads
    /\ op' = <<"model", path, LoadOutcome>>
    /\ load_model_async(path)
    /\ UNCHANGED <<model, pending_model, model_count, model_paths,
                   current_model_index,
                   cabVars, paramVars, scratchVars, blockVars,
                   cpc, apc, a_pending, a_old, blocks,
                   deletes, lastpub, a_seenpub>>
    /\ UNCHANGED auxVars

\* v2_set_param(inst, "model", path), lines 1009-1011, when the pthread_create
\* of line 848, whose result is not checked, fails: loading has been set
\* (line 842) and no loader thread exists
SetParamModelNoThread(path) ==
    /\ cpc = "live"
    /\ op' = <<"model", path, IF loading THEN "skipped" ELSE "nothread">>
    /\ IF loading
       THEN UNCHANGED <<model_path, model_name, loading>>
       ELSE /\ model_path' = path
            /\ model_name' = path_to_name(path)
            /\ loading' = TRUE
    /\ UNCHANGED <<model, pending_model, model_count, model_paths,
                   current_model_index, loaders,
                   cabVars, paramVars, scratchVars, blockVars,
                   cpc, apc, a_pending, a_old, blocks,
                   deletes, lastpub, a_seenpub>>
    /\ UNCHANGED auxVars

\* v2_set_param(inst, "input_level", val), lines 997-999; val is atof(val) * 100
\* (op, the record of the call, is set by the specification that follows the
\* level, cabinet and bypass calls)
SetParamInputLevel(val) ==
    /\ cpc = "live"
    /\ input_level' = clampf(val, 0, 100)
    /\ input_gain' = knob_to_gain(clampf(val, 0, 100))
    /\ UNCHANGED <<modelVars, cabVars, output_level, output_gain, scratchVars,
                   blockVars, loaders, cpc, apc, a_pending, a_old, blocks,
                   ghostVars>>
    /\ UNCHANGED auxVars

\* v2_set_param(inst, "output_level", val), lines 1000-1002
SetParamOutputLevel(val) ==
    /\ cpc = "live"
    /\ output_level' = clampf(val, 0, 100)
    /\ output_gain' = knob_to_gain(clampf(val, 0, 100))
    /\ UNCHANGED <<modelVars, cabVars, input_level, input_gain, scratchVars,
                   blockVars, loaders, cpc, apc, a_pending, a_old, blocks,
                   ghostVars>>
    /\ UNCHANGED auxVars

\* v2_set_param(inst, "cab_index", idx), lines 1012-1016
SetParamCabIndex(idx) ==
    /\ cpc = "live"
    /\ IF idx >= 0 /\ idx < cab_count /\ idx # current_cab_index
       THEN load_cab(idx)
       ELSE UNCHANGED <<cab_ir, cab_ir_len, cab_history, cab_hist_pos, cab_name,
                        current_cab_index>>
    /\ UNCHANGED <<modelVars, cab_bypass, cab_count, cab_paths, paramVars,
                   scratchVars, blockVars, loaders, cpc, apc, a_pending,
                   a_old, blocks, deletes, lastpub, a_seenpub>>
    /\ UNCHANGED auxVars

\* v2_set_param(inst, "cab_bypass", val), lines 1017-1022; val is atoi(val)
SetParamCabBypass(val) ==
    /\ cpc = "live"
    /\ cab_bypass' = (val # 0)
    /\ UNCHANGED <<modelVars, cab_ir, cab_ir_len, cab_history, cab_hist_pos,
                   cab_name, cab_count, cab_paths, current_cab_index,
                   paramVars, scratchVars, blockVars, loaders, cpc, apc,
                   a_pending, a_old, blocks, deletes, lastpub, a_seenpub>>
    /\ UNCHANGED auxVars

\* v2_set_param(inst, key, val) for a key that none of the strcmp tests of
\* lines 997-1017 matches: no branch runs
SetParamUnknown ==
    /\ cpc = "live"
    /\ UNCHANGED <<modelVars, cabVars, paramVars, scratchVars, blockVars,
                   loaders, cpc, apc, a_pending, a_old, blocks, ghostVars,
                   auxVars>>

(* ----------------------------------------------------------------------- *)
(* Controller thread: load_cab statement by statement, as the audio thread  *)
(* sees it                                                                  *)
(* ----------------------------------------------------------------------- *)

\* everything but the cabinet fields load_cab assigns, lc and op
LoadCabFrame ==
    <<modelVars, cab_bypass, cab_count, cab_paths, paramVars, scratchVars,
      blockVars, loaders, cpc, apc, a_pending, a_old, blocks, ghostVars,
      a_start, dir_entries, scanned, wav, x_all, a_loc>>

\* v2_set_param(inst, "cab_index", idx), lines 1012-1016, and load_cab up to
\* line 757: the index is tested and the file decoded into new_ir; when the
\* decode fails load_cab returns
LoadCabBegin(idx) ==
    /\ cpc = "live"
    /\ lc.pc = "idle"
    /\ op' = <<"cab_index", idx, "none">>
    /\ IF idx >= 0 /\ idx < cab_count /\ idx # current_cab_index
       THEN LET new_ir == load_wav_ir(cab_paths[idx + 1])
                ir_len == IF Len(new_ir) > MAX_IR_LEN THEN MAX_IR_LEN
                          ELSE Len(new_ir)
            IN IF ir_len <= 0
               THEN UNCHANGED lc
               ELSE lc' = [pc |-> "ir", index |-> idx, new_ir |-> new_ir,
                           ir_len |-> ir_len]
       ELSE UNCHANGED lc
    /\ UNCHANGED <<cab_ir, cab_ir_len, cab_history, cab_hist_pos, cab_name,
                   current_cab_index, a_cab>>
    /\ UNCHANGED LoadCabFrame

\* line 759: inst->cab_ir = new_ir; an apply_cab_ir call that has read the
\* pointer keeps the old one
LoadCabIr ==
    /\ lc.pc = "ir"
    /\ cab_ir' = lc.new_ir
    /\ lc' = [lc EXCEPT !.pc = "len"]
    /\ a_cab' = IF a_cab.on THEN [a_cab EXCEPT !.ir_old = TRUE] ELSE a_cab
    /\ UNCHANGED <<cab_ir_len, cab_history, cab_hist_pos, cab_name,
                   current_cab_index, op>>
    /\ UNCHANGED LoadCabFrame

\* lines 760-762: inst->cab_ir_len = ir_len, the index and the name
LoadCabLen ==
    /\ lc.pc = "len"
    /\ cab_ir_len' = lc.ir_len
    /\ current_cab_index' = lc.index
    /\ cab_name' = path_to_name(cab_paths[lc.index + 1])
    /\ lc' = [lc EXCEPT !.pc = "hist"]
    /\ UNCHANGED a_cab
    /\ UNCHANGED <<cab_ir, cab_history, cab_hist_pos, op>>
    /\ UNCHANGED LoadCabFrame

\* load_cab leaving the old history in place at line 765
LoadCabHistKeep ==
    /\ lc.pc = "hist"
    /\ lc' = [lc EXCEPT !.pc = "pos"]
    /\ UNCHANGED <<cab_ir, cab_ir_len, cab_history, cab_hist_pos, cab_name,
                   current_cab_index, op, a_cab>>
    /\ UNCHANGED LoadCabFrame

\* line 765: inst->cab_history = calloc(ir_len + FRAMES_PER_BLOCK, ...); an
\* apply_cab_ir call that has read the pointer keeps the old one
LoadCabHist ==
    /\ lc.pc = "hist"
    /\ cab_history' = Zeros(lc.ir_len + FRAMES_PER_BLOCK)
    /\ lc' = [lc EXCEPT !.pc = "pos"]
    /\ a_cab' = IF a_cab.on THEN [a_cab EXCEPT !.hist_old = TRUE] ELSE a_cab
    /\ UNCHANGED <<cab_ir, cab_ir_len, cab_hist_pos, cab_name,
                   current_cab_index, op>>
    /\ UNCHANGED LoadCabFrame

\* line 766: inst->cab_hist_pos = 0
LoadCabPos ==
    /\ lc.pc = "pos"
    /\ cab_hist_pos' = 0
    /\ lc' = [lc EXCEPT !.pc = "free"]
    /\ UNCHANGED a_cab
    /\ UNCHANGED <<cab_ir, cab_ir_len, cab_history, cab_name,
                   current_cab_index, op>>
    /\ UNCHANGED LoadCabFrame

\* lines 768-773: the old IR and history are freed, also when an
\* apply_cab_ir call still holds them; load_cab returns
LoadCabFree ==
    /\ lc.pc = "free"
    /\ lc' = NoLoadCab
    /\ a_cab' = IF a_cab.on
               THEN [a_cab EXCEPT !.freed = a_cab.ir_old \/ a_cab.hist_old]
               ELSE a_cab
    /\ UNCHANGED <<cab_ir, cab_ir_len, cab_history, cab_hist_pos, cab_name,
                   current_cab_index, op>>
    /\ UNCHANGED LoadCabFrame

(* ----------------------------------------------------------------------- *)
(* Controller thread: v2_get_param                                          *)
(* ----------------------------------------------------------------------- *)

\* strlen of a display name: 0 for the empty name, 100 characters for the
\* name of files 1 and 2, 3 for any other
strlen(nm) ==
    CASE nm = 0 -> 0
      [] nm = 1 -> 100
      [] OTHER -> 3

\* characters "%d" prints for n
RECURSIVE DecLen(_)
DecLen(n) ==
    IF n < 0 THEN 1 + DecLen(-n)
    ELSE IF n < 10 THEN 1 ELSE 1 + DecLen(n \div 10)

\* characters "%.2f" prints for the level v / 100
FixedLen(v) == IF v < 0 THEN 1 + DecLen((-v) \div 100) + 3
               ELSE DecLen(v \div 100) + 3

\* characters "%s" prints for a name, "(none)" standing for the empty one
NameOrNoneLen(nm) == IF nm # 0 THEN strlen(nm) ELSE 6

\* strlen of the hierarchy literal of lines 1086-1118
HierarchyLen == 558

\* snprintf(buf + off, size, ...) of a text of len characters.  It returns len
\* whatever the size.  It stores nothing for size 0; for a positive size the
\* text cut to size - 1 characters and a terminating 0; a negative size is
\* converted to a size_t above any length, so the whole text and its 0 are
\* stored.  chars is the number of characters stored, hi the offset in buf
\* just after the last byte stored (0 when nothing is stored)
snprintf(off, size, len) ==
    LET chars == IF size = 0 THEN 0
                 ELSE IF size < 0 \/ len < size THEN len
                 ELSE size - 1
    IN [ret |-> len,
        chars |-> chars,
        hi |-> IF size = 0 THEN 0 ELSE off + chars + 1]

\* written += snprintf(buf + written, buf_len - written, ...), lines 1046-1052,
\* on the running totals w
Put(w, buf_len, len) ==
    LET r == snprintf(w.written, buf_len - w.written, len)
    IN [written |-> w.written + r.ret,
        chars |-> w.chars + r.chars,
        hi |-> IF r.hi > w.hi THEN r.hi ELSE w.hi]

\* lines 1047-1051 (1075-1079): the loop over the catalog's names from entry i
RECURSIVE ListLoop(_, _, _, _)
ListLoop(names, i, buf_len, w) ==
    IF i < Len(names) /\ w.written < buf_len - 40
    THEN LET w1 == IF i > 0 THEN Put(w, buf_len, 1) ELSE w
             w2 == Put(w1, buf_len, 21 + strlen(names[i + 1]) + DecLen(i))
         IN ListLoop(names, i + 1, buf_len, w2)
    ELSE w

\* lines 1045-1053 (1073-1081): "[", the entries, "]"
ListText(names, buf_len) ==
    LET w0 == Put([written |-> 0, chars |-> 0, hi |-> 0], buf_len, 1)
        w1 == ListLoop(names, 0, buf_len, w0)
        w2 == Put(w1, buf_len, 1)
    IN [ret |-> w2.written, chars |-> w2.chars, hi |-> w2.hi]

\* strcmp(key, name) == 0, but with the empty key matching every name
KeyIsOrEmpty(key, name) == key = name \/ key = ""

\* strcmp(key, name) == 0
KeyIs(key, name) == key = name

\* the value returned for no buffer and for a key no test matches
NoValue == [ret |-> -1, chars |-> 0, hi |-> 0]

\* lines 1028-1122 after the rescans: what get_param returns and stores for
\* key, given the catalogs mp and cp the instance holds then
get_param(key, has_buf, buf_len, mp, cp) ==
    IF ~has_buf THEN NoValue
    ELSE IF KeyIs(key, "input_level")
         THEN snprintf(0, buf_len, FixedLen(input_level))
    ELSE IF KeyIs(key, "output_level")
         THEN snprintf(0, buf_len, FixedLen(output_level))
    ELSE IF KeyIs(key, "model_name")
         THEN snprintf(0, buf_len, NameOrNoneLen(model_name))
    ELSE IF KeyIs(key, "model_count")
         THEN snprintf(0, buf_len, DecLen(model_count))
    ELSE IF KeyIs(key, "model_index")
         THEN snprintf(0, buf_len, DecLen(current_model_index))
    ELSE IF KeyIs(key, "model_list")
         THEN ListText([i \in 1 .. Len(mp) |-> path_to_name(mp[i])], buf_len)
    ELSE IF KeyIs(key, "loading")
         THEN snprintf(0, buf_len, 1)
    ELSE IF KeyIs(key, "cab_name")
         THEN snprintf(0, buf_len, NameOrNoneLen(cab_name))
    ELSE IF KeyIs(key, "cab_count")
         THEN snprintf(0, buf_len, DecLen(cab_count))
    ELSE IF KeyIs(key, "cab_index")
         THEN snprintf(0, buf_len, DecLen(current_cab_index))
    ELSE IF KeyIs(key, "cab_bypass")
         THEN snprintf(0, buf_len, 1)
    ELSE IF KeyIs(key, "cab_list")
         THEN ListText([i \in 1 .. Len(cp) |-> path_to_name(cp[i])], buf_len)
    ELSE IF KeyIs(key, "ui_hierarchy")
         THEN snprintf(0, buf_len, HierarchyLen)
    ELSE NoValue

\* catalogs a scan of the cabs directory can produce
CabCatalogs == {<< >>, SortedSeq(CabFiles)}

\* v2_get_param(inst, key, buf, buf_len), lines 1026-1123.  model_list and
\* cab_list scan their directory again first (lines 1043, 1071), which may
\* hold other files by now.  op keeps the call and its outcome: the value
\* returned, the characters stored and the extent of buf written
GetParam(key, has_buf, buf_len) ==
    /\ cpc = "live"
    /\ IF has_buf /\ KeyIs(key, "model_list")
       THEN \E cat \in Catalogs :
                /\ model_paths' = cat
                /\ model_count' = Len(cat)
       ELSE UNCHANGED <<model_paths, model_count>>
    /\ IF has_buf /\ ~KeyIs(key, "model_list") /\ KeyIs(key, "cab_list")
       THEN \E cat \in CabCatalogs :
                /\ cab_paths' = cat
                /\ cab_count' = Len(cat)
       ELSE UNCHANGED <<cab_paths, cab_count>>
    /\ LET r == get_param(key, has_buf, buf_len, model_paths', cab_paths')
       IN op' = <<"get_param", key, buf_len, r.ret, r.chars, r.hi, has_buf>>
    /\ UNCHANGED <<model, pending_model, loading, model_path, model_name,
                   current_model_index, cab_ir, cab_ir_len, cab_history,
                   cab_hist_pos, cab_bypass, cab_name, current_cab_index,
                   paramVars, scratchVars, blockVars, loaders, cpc, apc,
                   a_pending, a_old, blocks, ghostVars, auxVars>>

(* ----------------------------------------------------------------------- *)
(* Audio thread: v2_process_block                                           *)
(* ----------------------------------------------------------------------- *)

\* line 964 without the clamp: int n = frames
BlockFramesUnclamped(f) == f

\* line 964: int n = (frames > FRAMES_PER_BLOCK) ? FRAMES_PER_BLOCK : frames
BlockFrames(f) == IF f > FRAMES_PER_BLOCK THEN FRAMES_PER_BLOCK ELSE f

\* highest index a loop "for (i = 0; i < n; i++)" reaches in an array it
\* indexes with stride * i + (stride - 1); -1 when the loop does not run
LoopHi(n, stride) == IF n > 0 THEN stride * n - 1 ELSE -1

Max(a, b) == IF a > b THEN a ELSE b

\* line 954 with the swap taken whatever the slot holds
HavePendingAlways == TRUE

\* line 954: if (pending), on the value just loaded from the slot
HavePending == pending_model # nullptr

\* line 962 removed: the block is processed without an active model
PassThroughNever == FALSE

\* line 962: if (!inst->model) return
PassThrough == model = nullptr

\* lines 948-957: the call starts on block Block(f); the pending slot is
\* read and, when it holds a model, that model becomes the active one
ProcBegin(f) ==
    /\ cpc = "live"
    /\ apc = "idle"
    /\ audio_inout' = Block(f)
    /\ frames' = f
    /\ a_n' = 0
    /\ access' = [buf |-> -1, scratch |-> -1]
    /\ a_seenpub' = lastpub
    /\ a_pending' = pending_model
    /\ IF HavePending
       THEN /\ a_old' = model
            /\ model' = pending_model
            /\ apc' = "clear"
       ELSE /\ a_old' = nullptr
            /\ model' = model
            /\ apc' = "check"
    /\ UNCHANGED <<pending_model, loading, model_path, model_name, model_count,
                   model_paths, current_model_index, cabVars, paramVars,
                   scratchVars, loaders, cpc, op, deletes, lastpub>>
    /\ UNCHANGED scanVars

\* line 957: inst->pending_model.store(nullptr)
ProcClear ==
    /\ apc = "clear"
    /\ pending_model' = nullptr
    /\ apc' = "release"
    /\ UNCHANGED <<model, loading, model_path, model_name, model_count,
                   model_paths, current_model_index, cabVars, paramVars,
                   scratchVars, blockVars, loaders, cpc, op, a_pending, a_old,
                   blocks, ghostVars>>
    /\ UNCHANGED auxVars

\* line 958 deleting the model just made active instead of the replaced one
ReleasedIsActive == model

\* line 958: the model `delete old` is applied to
Released == a_old

\* line 958: if (old) delete old
ProcRelease ==
    /\ apc = "release"
    /\ deletes' = IF a_old # nullptr
                  THEN [deletes EXCEPT ![Released.id] = @ + 1]
                  ELSE deletes
    /\ apc' = "check"
    /\ UNCHANGED <<modelVars, cabVars, paramVars, scratchVars, blockVars,
                   loaders, cpc, op, a_pending, a_old, blocks,
                   lastpub, a_seenpub>>
    /\ UNCHANGED auxVars

\* lines 961-972: return when no model is active; else clamp the frame count
\* and fill mono_in from the block with the input gain read once
ProcInput ==
    /\ apc = "check"
    /\ IF PassThrough
       THEN /\ apc' = "idle"
            /\ a_pending' = nullptr
            /\ a_old' = nullptr
            /\ a_seenpub' = nullptr
            /\ a_start' = NoStart
            /\ UNCHANGED <<mono_in, a_n, access>>
       ELSE LET n == BlockFrames(frames)
                ig == input_gain
            IN /\ a_n' = n
               /\ mono_in' = [i \in DOMAIN mono_in |->
                    IF i < n
                    THEN ToMono(audio_inout[2 * i], audio_inout[2 * i + 1], ig)
                    ELSE mono_in[i]]
               /\ access' = [buf |-> Max(access.buf, LoopHi(n, 2)),
                             scratch |-> Max(access.scratch, LoopHi(n, 1))]
               /\ apc' = "model"
               /\ UNCHANGED <<a_pending, a_old, a_seenpub, a_start>>
    /\ UNCHANGED <<modelVars, cabVars, paramVars, mono_out, audio_inout,
                   frames, loaders, cpc, op, blocks, deletes,
                   lastpub>>
    /\ UNCHANGED scanVars

\* lines 974-975: inst->model->Process(mono_in, mono_out, n)
ProcModel ==
    /\ apc = "model"
    /\ mono_out' = [i \in DOMAIN mono_out |->
            IF i < a_n THEN NeuralProcess(model, mono_in[i]) ELSE mono_out[i]]
    /\ access' = [access EXCEPT !.scratch = Max(@, LoopHi(a_n, 1))]
    /\ apc' = "cab"
    /\ UNCHANGED <<modelVars, cabVars, paramVars, mono_in, audio_inout, frames, a_n, loaders, cpc, op, a_pending, a_old,
                   blocks, ghostVars>>
    /\ UNCHANGED auxVars

\* lines 974-975 for any int n: (size_t)n of a negative n is a count beyond
\* every buffer, and what Process does with it is undefined: the call faults,
\* or it goes on having written past mono_out
ProcModelSized ==
    /\ apc = "model"
    /\ IF a_n < 0
       THEN /\ \/ apc' = "fault" /\ UNCHANGED access
               \/ /\ apc' = "cab"
                  /\ access' = [access EXCEPT
                                  !.scratch = Max(@, FRAMES_PER_BLOCK)]
            /\ UNCHANGED mono_out
       ELSE /\ mono_out' = [i \in DOMAIN mono_out |->
                  IF i < a_n THEN NeuralProcess(model, mono_in[i])
                  ELSE mono_out[i]]
            /\ access' = [access EXCEPT !.scratch = Max(@, LoopHi(a_n, 1))]
            /\ apc' = "cab"
    /\ UNCHANGED <<modelVars, cabVars, paramVars, mono_in, audio_inout, frames,
                   a_n, loaders, cpc, op, a_pending, a_old, blocks, ghostVars>>
    /\ UNCHANGED auxVars

\* line 978 with the bypass test removed: if (inst->cab_ir)
CabStageOnIgnoringBypass == cab_ir # << >>

\* line 978: if (!inst->cab_bypass && inst->cab_ir)
CabStageOn == ~cab_bypass /\ cab_ir # << >>

\* lines 977-980: the convolution stage, unless bypassed or no IR is loaded
ProcCab ==
    /\ apc = "cab"
    /\ IF CabStageOn
       THEN LET r == apply_cab_ir(mono_out, a_n)
            IN /\ mono_out' = r.audio
               /\ cab_history' = r.hist
               /\ cab_hist_pos' = r.pos
       ELSE UNCHANGED <<mono_out, cab_history, cab_hist_pos>>
    /\ apc' = "output"
    /\ UNCHANGED <<modelVars, cab_ir, cab_ir_len, cab_bypass, cab_name,
                   cab_count, cab_paths, current_cab_index, paramVars, mono_in,
                   blockVars, loaders, cpc, op, a_pending, a_old, blocks,
                   ghostVars>>
    /\ UNCHANGED auxVars

\* the number of floats of the buffer cab_history points to
HistCapacity == Cardinality(DOMAIN cab_history)

\* lines 787-800: the highest index of hist that n iterations touch, starting
\* with the cursor at pos, for an IR of ir_len samples; -1 when n is 0.  The
\* cursor walks up to hist_len - 1 and wraps; the read index walks down from
\* the cursor and wraps to hist_len - 1
MaxHistIndex(pos, ir_len, n) ==
    LET hist_len == ir_len + FRAMES_PER_BLOCK
        last == pos + n - 1
    IN IF n <= 0 THEN -1
       ELSE IF pos >= hist_len THEN pos
       ELSE IF last >= hist_len - 1 THEN hist_len - 1
       ELSE IF pos < ir_len - 1 THEN hist_len - 1
       ELSE last

\* the IR as apply_cab_ir reads it: ir_len floats of the MAX_IR_LEN the
\* buffer was calloc'ed with (line 743), those past the decoded samples 0
IrRead(ir, ir_len) ==
    [k \in 1 .. ir_len |-> IF k <= Len(ir) THEN ir[k] ELSE 0]

\* lines 977-980 when load_cab may be running on the controller thread: the
\* fields are read as they are at this moment.  An index beyond the history
\* buffer is undefined behaviour: the call faults, or it goes on with the
\* block as it was
ProcCabRace ==
    /\ apc = "cab"
    /\ IF ~CabStageOn \/ cab_ir_len <= 0 \/ cab_history = << >>
       THEN /\ apc' = "output"
            /\ UNCHANGED <<mono_out, cab_history, cab_hist_pos>>
       ELSE IF MaxHistIndex(cab_hist_pos, cab_ir_len, a_n) >= HistCapacity
       THEN /\ apc' \in {"fault", "output"}
            /\ UNCHANGED <<mono_out, cab_history, cab_hist_pos>>
       ELSE LET r == CabLoop(IrRead(cab_ir, cab_ir_len), cab_ir_len, 0, a_n,
                             [audio |-> mono_out, hist |-> cab_history,
                              pos |-> cab_hist_pos])
            IN /\ mono_out' = r.audio
               /\ cab_history' = r.hist
               /\ cab_hist_pos' = r.pos
               /\ apc' = "output"
    /\ UNCHANGED <<modelVars, cab_ir, cab_ir_len, cab_bypass, cab_name,
                   cab_count, cab_paths, current_cab_index, paramVars, mono_in,
                   blockVars, loaders, cpc, op, a_pending, a_old, blocks,
                   ghostVars>>
    /\ UNCHANGED <<a_start, dir_entries, scanned, wav, lc, a_cab, x_all, a_loc>>

\* the cursor after n frames from pos on a ring of hist_len entries, lines
\* 787 and 800
CursorAfter(pos, hist_len, n) ==
    IF pos >= hist_len THEN IF n = 0 THEN pos ELSE n - 1
    ELSE (pos + n) % hist_len

\* line 978 and lines 779-785 when load_cab may be running: apply_cab_ir
\* copies cab_ir, cab_ir_len, cab_history and cab_hist_pos into its locals
ProcCabRead ==
    /\ apc = "cab"
    /\ IF ~CabStageOn \/ cab_ir_len <= 0 \/ cab_history = << >>
       THEN /\ apc' = "output"
            /\ UNCHANGED a_cab
       ELSE /\ apc' = "conv"
            /\ a_cab' = [on |-> TRUE, ir |-> cab_ir, ir_len |-> cab_ir_len,
                         hist |-> cab_history, pos |-> cab_hist_pos,
                         ir_old |-> FALSE, hist_old |-> FALSE,
                         freed |-> FALSE]
    /\ UNCHANGED <<modelVars, cabVars, paramVars, scratchVars, blockVars,
                   loaders, cpc, op, a_pending, a_old, blocks, ghostVars,
                   a_start, dir_entries, scanned, wav, lc, x_all, a_loc>>

\* lines 787-803 on the locals: the loop runs on the buffers the call read,
\* which load_cab may have replaced and freed since, and the cursor is written
\* back to the instance.  An index beyond the history buffer and a freed
\* buffer are undefined behaviour: the call faults, or it goes on
ProcCabLoop ==
    /\ apc = "conv"
    /\ LET hist_len == a_cab.ir_len + FRAMES_PER_BLOCK
       IN IF MaxHistIndex(a_cab.pos, a_cab.ir_len, a_n)
                >= Cardinality(DOMAIN a_cab.hist)
          THEN \/ /\ apc' = "fault"
                  /\ UNCHANGED <<mono_out, cab_history, cab_hist_pos>>
               \/ /\ apc' = "output"
                  /\ cab_hist_pos' = CursorAfter(a_cab.pos, hist_len, a_n)
                  /\ UNCHANGED <<mono_out, cab_history>>
          ELSE LET r == CabLoop(IrRead(a_cab.ir, a_cab.ir_len), a_cab.ir_len,
                                0, a_n,
                                [audio |-> mono_out, hist |-> a_cab.hist,
                                 pos |-> a_cab.pos])
               IN \/ /\ a_cab.freed
                     /\ apc' = "fault"
                     /\ UNCHANGED <<mono_out, cab_history, cab_hist_pos>>
                  \/ /\ apc' = "output"
                     /\ mono_out' = r.audio
                     /\ cab_history' = IF a_cab.hist_old THEN cab_history
                                       ELSE r.hist
                     /\ cab_hist_pos' = r.pos
    /\ a_cab' = NoApplyCab
    /\ UNCHANGED <<modelVars, cab_ir, cab_ir_len, cab_bypass, cab_name,
                   cab_count, cab_paths, current_cab_index, paramVars, mono_in,
                   blockVars, loaders, cpc, op, a_pending, a_old, blocks,
                   ghostVars, a_start, dir_entries, scanned, wav, lc, x_all, a_loc>>

\* lines 982-989: output gain read once, hard clip to [-1, 1], back to int16,
\* the same sample to both channels; the call returns
ProcOutput ==
    /\ apc = "output"
    /\ LET og == output_gain
           sample(i) == ToInt16(mono_out[i], og)
       IN audio_inout' = [j \in DOMAIN audio_inout |->
                IF j \div 2 < a_n THEN sample(j \div 2) ELSE audio_inout[j]]
    /\ access' = [buf |-> Max(access.buf, LoopHi(a_n, 2)),
                  scratch |-> Max(access.scratch, LoopHi(a_n, 1))]
    /\ apc' = "idle"
    /\ a_pending' = nullptr
    /\ a_old' = nullptr
    /\ a_seenpub' = nullptr
    /\ a_start' = NoStart
    /\ UNCHANGED <<modelVars, cabVars, paramVars, scratchVars, frames, a_n,
                   loaders, cpc, op, blocks, deletes, lastpub>>
    /\ UNCHANGED scanVars

(* ----------------------------------------------------------------------- *)
(* Audio thread: the gain loops in two parts, so that a set_param call can  *)
(* fall between two frames of a loop                                        *)
(* ----------------------------------------------------------------------- *)

\* frames a loop runs before another thread is scheduled
LoopChunk == FRAMES_PER_BLOCK \div 2

\* a loop that reads the instance's gain field for every frame
LoopGainReread(loc, field) == field

\* lines 967 and 983: float ig = inst->input_gain, float og =
\* inst->output_gain; the loops use the local, not the field
LoopGain(loc, field) == loc.g

\* lines 962-967: pass-through test, n, and the read of input_gain into ig
ProcInputRead ==
    /\ apc = "check"
    /\ IF PassThrough
       THEN /\ apc' = "idle"
            /\ a_pending' = nullptr
            /\ a_old' = nullptr
            /\ a_seenpub' = nullptr
            /\ UNCHANGED <<a_n, a_loc>>
       ELSE /\ a_n' = BlockFrames(frames)
            /\ a_loc' = [g |-> input_gain, i |-> 0, seen |-> {}]
            /\ apc' = "in_loop"
            /\ UNCHANGED <<a_pending, a_old, a_seenpub>>
    /\ UNCHANGED <<modelVars, cabVars, paramVars, scratchVars, audio_inout,
                   frames, access, loaders, cpc, op, blocks, deletes, lastpub,
                   a_start, dir_entries, scanned, wav, lc, a_cab, x_all>>

\* lines 968-972: the next LoopChunk iterations of the input loop; after the
\* last one the call goes on to the model
ProcInputLoop ==
    /\ apc = "in_loop"
    /\ LET hi == IF a_loc.i + LoopChunk < a_n THEN a_loc.i + LoopChunk
                 ELSE a_n
           ig == LoopGain(a_loc, input_gain)
       IN /\ mono_in' = [i \in DOMAIN mono_in |->
                  IF i >= a_loc.i /\ i < hi
                  THEN ToMono(audio_inout[2 * i], audio_inout[2 * i + 1], ig)
                  ELSE mono_in[i]]
          /\ a_loc' = [a_loc EXCEPT !.i = hi,
                                   !.seen = a_loc.seen \cup {input_gain}]
          /\ IF hi >= a_n
             THEN /\ apc' = "model"
                  /\ access' = [buf |-> Max(access.buf, LoopHi(a_n, 2)),
                                scratch |-> Max(access.scratch,
                                                LoopHi(a_n, 1))]
             ELSE UNCHANGED <<apc, access>>
    /\ UNCHANGED <<modelVars, cabVars, paramVars, mono_out, audio_inout,
                   frames, a_n, loaders, cpc, op, a_pending, a_old, blocks,
                   ghostVars, a_start, dir_entries, scanned, wav, lc, a_cab,
                   x_all>>

\* line 983: the read of output_gain into og
ProcOutputRead ==
    /\ apc = "output"
    /\ a_loc' = [g |-> output_gain, i |-> 0, seen |-> {}]
    /\ apc' = "out_loop"
    /\ UNCHANGED <<modelVars, cabVars, paramVars, scratchVars, blockVars,
                   loaders, cpc, op, a_pending, a_old, blocks, ghostVars,
                   a_start, dir_entries, scanned, wav, lc, a_cab, x_all>>

\* lines 984-989: the next LoopChunk iterations of the output loop; after the
\* last one the call returns
ProcOutputLoop ==
    /\ apc = "out_loop"
    /\ LET hi == IF a_loc.i + LoopChunk < a_n THEN a_loc.i + LoopChunk
                 ELSE a_n
           og == LoopGain(a_loc, output_gain)
       IN /\ audio_inout' = [j \in DOMAIN audio_inout |->
                  IF j \div 2 >= a_loc.i /\ j \div 2 < hi
                  THEN ToInt16(mono_out[j \div 2], og)
                  ELSE audio_inout[j]]
          /\ IF hi >= a_n
             THEN /\ apc' = "idle"
                  /\ a_loc' = [a_loc EXCEPT !.i = hi,
                                   !.seen = a_loc.seen \cup {output_gain}]
                  /\ access' = [buf |-> Max(access.buf, LoopHi(a_n, 2)),
                                scratch |-> Max(access.scratch,
                                                LoopHi(a_n, 1))]
                  /\ a_pending' = nullptr
                  /\ a_old' = nullptr
                  /\ a_seenpub' = nullptr
             ELSE /\ a_loc' = [a_loc EXCEPT !.i = hi,
                                   !.seen = a_loc.seen \cup {output_gain}]
                  /\ UNCHANGED <<apc, access, a_pending, a_old, a_seenpub>>
    /\ UNCHANGED <<modelVars, cabVars, paramVars, scratchVars, frames, a_n,
                   loaders, cpc, op, blocks, deletes, lastpub, a_start,
                   dir_entries, scanned, wav, lc, a_cab, x_all>>

(* ----------------------------------------------------------------------- *)
(* Controller: v2_destroy_instance                                          *)
(* ----------------------------------------------------------------------- *)

\* line 923: the host calls destroy; it does so between process calls
DestroyBegin ==
    /\ cpc = "live"
    /\ apc = "idle"
    /\ cpc' = "wait"
    /\ op' = <<"destroy", 0, "none">>
    /\ UNCHANGED <<modelVars, cabVars, paramVars, scratchVars, blockVars,
                   loaders, apc, a_pending, a_old, blocks, ghostVars>>
    /\ UNCHANGED auxVars

\* lines 928-931 without the wait: destroy goes on whatever loading holds
DestroyMayFreeAlways == TRUE

\* lines 928-931: the wait loop is left when loading is read false
DestroyMayFree == ~loading

\* lines 927-944: once loading is false, delete the pending model if any,
\* delete the active model if any, free the IR, the history and the instance
DestroyFree ==
    /\ cpc = "wait"
    /\ DestroyMayFree
    /\ LET d1 == IF pending_model # nullptr
                 THEN [deletes EXCEPT ![pending_model.id] = @ + 1]
                 ELSE deletes
       IN deletes' = IF model # nullptr
                     THEN [d1 EXCEPT ![model.id] = @ + 1]
                     ELSE d1
    /\ cpc' = "destroyed"
    /\ UNCHANGED <<modelVars, cabVars, paramVars, scratchVars, blockVars,
                   loaders, op, apc, a_pending, a_old, blocks, lastpub,
                   a_seenpub>>
    /\ UNCHANGED auxVars

(* ----------------------------------------------------------------------- *)
(* Specifications                                                           *)
(* ----------------------------------------------------------------------- *)

Activate == ProcClear \/ ProcRelease

DataPath == ProcInput \/ ProcModel \/ ProcCab \/ ProcOutput

\* model selection values: every index of the largest catalog, one below and
\* one above
IndexInputs == -1 .. Cardinality(Files)

\* the hand-off protocol: model selection, loaders, activation, destroy
Next ==
    \/ \E t \in DOMAIN loaders : LoaderCreate(t)
    \/ \E t \in DOMAIN loaders : LoaderPublish(t)
    \/ \E t \in DOMAIN loaders : LoaderClear(t)
    \/ \E idx \in IndexInputs : SetParamModelIndex(idx)
    \/ \E path \in Files : SetParamModel(path)
    \/ ProcBegin(FRAMES_PER_BLOCK) /\ UNCHANGED <<blocks, a_start>>
    \/ Activate
    \/ DataPath
    \/ DestroyBegin
    \/ DestroyFree

Spec == Init /\ [][Next]_vars

\* loads and teardown with the threads' progress: direct loads whose thread
\* starts or fails to start, the loader threads, destroy
NextLive ==
    \/ \E t \in DOMAIN loaders : LoaderCreate(t)
    \/ \E t \in DOMAIN loaders : LoaderPublish(t)
    \/ \E t \in DOMAIN loaders : LoaderClear(t)
    \/ \E path \in Files : SetParamModel(path)
    \/ \E path \in Files : SetParamModelNoThread(path)
    \/ DestroyBegin
    \/ DestroyFree

\* a started loader thread is scheduled and CreateFromFile returns, so each of
\* its steps is eventually taken; destroy's wait loop polls loading every
\* 10 ms (lines 928-931), so it goes on once loading stays false
SpecLive ==
    /\ Init
    /\ [][NextLive]_vars
    /\ WF_vars(\E t \in DOMAIN loaders : LoaderCreate(t))
    /\ WF_vars(\E t \in DOMAIN loaders : LoaderPublish(t))
    /\ WF_vars(\E t \in DOMAIN loaders : LoaderClear(t))
    /\ WF_vars(DestroyFree)

\* frame counts at and around the block capacity
FrameCounts == {0, FRAMES_PER_BLOCK, FRAMES_PER_BLOCK + 1}

\* knob values as the host may send them (x 100), in and out of range
KnobInputs == {-50, 50, 150}

\* cabinet selection values: every index of the cabs directory, one below and
\* one above
CabIndexInputs == -1 .. MaxCabFiles

\* atoi of the bypass value
BypassInputs == 0 .. 1

\* the audio path: one model load, levels, bypass and cabinet selection; the
\* level, cabinet and bypass calls are not recorded in op here
NextAudio ==
    \/ \E t \in DOMAIN loaders : LoaderCreate(t)
    \/ \E t \in DOMAIN loaders : LoaderPublish(t)
    \/ \E t \in DOMAIN loaders : LoaderClear(t)
    \/ \E val \in KnobInputs : SetParamInputLevel(val) /\ UNCHANGED op
    \/ \E val \in KnobInputs : SetParamOutputLevel(val) /\ UNCHANGED op
    \/ \E idx \in CabIndexInputs : SetParamCabIndex(idx) /\ UNCHANGED op
    \/ \E val \in BypassInputs : SetParamCabBypass(val) /\ UNCHANGED op
    \/ \E f \in FrameCounts :
            /\ blocks < MaxBlocks
            /\ blocks' = blocks + 1
            /\ ProcBegin(f)
            /\ UNCHANGED a_start
    \/ Activate
    \/ DataPath

SpecAudio == InitAudio /\ [][NextAudio]_vars

\* the controller's view: one model file, a cabs directory with all or none of
\* the cab files
InitParam ==
    /\ InitModel(<<1>>)
    /\ \E cat \in {<< >>, SortedSeq(CabFiles)} : InitCab(cat)
    /\ InitRest
    /\ InitAux

\* keys the plugin does not know
UnknownKeys == {"volume", ""}

\* keys v2_set_param does not test for: the unknown ones and one only
\* v2_get_param knows
SetUnknownKeys == UnknownKeys \cup {"model_name"}

\* keys v2_get_param tests for
GetKeys ==
    {"input_level", "output_level", "model_name", "model_count",
     "model_index", "model_list", "loading", "cab_name", "cab_count",
     "cab_index", "cab_bypass", "cab_list", "ui_hierarchy"}

\* keys v2_get_param does not test for: the unknown ones and one only
\* v2_set_param knows
GetUnknownKeys == UnknownKeys \cup {"model"}

\* sizes of the buffer the host passes
BufLens == {0, 64, 4096}

\* the parameter interface: every set_param call is recorded in op
NextParam ==
    \/ \E t \in DOMAIN loaders : LoaderCreate(t)
    \/ \E t \in DOMAIN loaders : LoaderPublish(t)
    \/ \E t \in DOMAIN loaders : LoaderClear(t)
    \/ \E val \in KnobInputs :
            SetParamInputLevel(val) /\ op' = <<"input_level", val, "none">>
    \/ \E val \in KnobInputs :
            SetParamOutputLevel(val) /\ op' = <<"output_level", val, "none">>
    \/ \E idx \in CabIndexInputs :
            SetParamCabIndex(idx) /\ op' = <<"cab_index", idx, "none">>
    \/ \E val \in BypassInputs :
            SetParamCabBypass(val) /\ op' = <<"cab_bypass", val, "none">>
    \/ \E idx \in IndexInputs : SetParamModelIndex(idx)
    \/ \E key \in SetUnknownKeys, val \in BypassInputs :
            SetParamUnknown /\ op' = <<key, val, "none">>

SpecParam == InitParam /\ [][NextParam]_vars

\* the cabinet file of the decoding runs
WavFile == 9

\* headers of the cabinet file: chunk layouts, format tags, channel counts,
\* sample widths and data sizes, supported or not
WavHeaders ==
    [chunks : {"fmt_data", "short_fmt", "no_fmt", "no_data"},
     fmt : {0, 1, 3},
     ch : {0, 1, 2},
     bits : {0, 4, 8, 16, 24, 32, 64},
     data_size : {0, 3, 48, 40000}]

\* an instance created on an empty cabs directory, whose catalog a later
\* cab_list request found to hold one file; that file's header is any
InitWav ==
    /\ InitModel(<< >>)
    /\ cab_paths = <<WavFile>>
    /\ cab_count = 1
    /\ cab_bypass = FALSE
    /\ cab_ir = << >>
    /\ cab_ir_len = 0
    /\ cab_history = << >>
    /\ cab_hist_pos = 0
    /\ cab_name = 0
    /\ current_cab_index = -1
    /\ InitRest
    /\ a_start = NoStart
    /\ dir_entries = [open |-> FALSE, entries |-> << >>]
    /\ scanned = NoScan
    /\ lc = NoLoadCab
    /\ a_cab = NoApplyCab
    /\ x_all = << >>
    /\ a_loc = NoLoop
    /\ \E h \in WavHeaders : wav = [NoWav EXCEPT !.hdr = h]

\* v2_set_param(inst, "cab_index", idx) on the file with header wav.hdr: lines
\* 1012-1016 and load_cab; a fault ends the process
SetParamCabIndexWav(idx) ==
    /\ cpc = "live"
    /\ ~wav.done
    /\ IF idx >= 0 /\ idx < cab_count /\ idx # current_cab_index
       THEN \E r \in load_wav_ir_hdr(wav.hdr, MAX_IR_LEN) :
               /\ wav' = [wav EXCEPT !.done = TRUE, !.fault = r.fault, !.n = r.n]
               /\ IF r.fault
                  THEN UNCHANGED <<cab_ir, cab_ir_len, cab_history,
                                   cab_hist_pos, cab_name, current_cab_index>>
                  ELSE load_cab_install(idx, WavSamples(r.n))
       ELSE UNCHANGED <<cab_ir, cab_ir_len, cab_history, cab_hist_pos,
                        cab_name, current_cab_index, wav>>
    /\ op' = <<"cab_index", idx, "none">>
    /\ UNCHANGED <<modelVars, cab_bypass, cab_count, cab_paths, paramVars,
                   scratchVars, blockVars, loaders, cpc, apc, a_pending,
                   a_old, blocks, ghostVars, a_start, dir_entries, scanned,
                   lc, a_cab, x_all, a_loc>>

NextWav == \E idx \in -1 .. 1 : SetParamCabIndexWav(idx)

SpecWav == InitWav /\ [][NextWav]_vars

\* an instance created on any catalog of models and of cabinets
InitGet ==
    /\ \E cat \in Catalogs : InitModel(cat)
    /\ \E cat \in CabCatalogs : InitCab(cat)
    /\ InitRest
    /\ InitAux

\* reading parameters: get_param for every key and buffer size, set_param for
\* the keys it does not know, while the load create started runs
NextGet ==
    \/ \E t \in DOMAIN loaders : LoaderCreate(t)
    \/ \E t \in DOMAIN loaders : LoaderPublish(t)
    \/ \E t \in DOMAIN loaders : LoaderClear(t)
    \/ \E key \in SetUnknownKeys, val \in BypassInputs :
            SetParamUnknown /\ op' = <<key, val, "none">>
    \/ \E key \in GetKeys \cup GetUnknownKeys, has_buf \in BOOLEAN,
           buf_len \in BufLens :
            GetParam(key, has_buf, buf_len)

SpecGet == InitGet /\ [][NextGet]_vars

\* controller writes racing with a process call: levels and bypass are set
\* while blocks of 128 frames are processed, and each call's entry values of
\* input_gain, output_gain and cab_bypass are kept in a_start
NextRace ==
    \/ \E t \in DOMAIN loaders : LoaderCreate(t)
    \/ \E t \in DOMAIN loaders : LoaderPublish(t)
    \/ \E t \in DOMAIN loaders : LoaderClear(t)
    \/ \E val \in KnobInputs : SetParamInputLevel(val) /\ UNCHANGED op
    \/ \E val \in KnobInputs : SetParamOutputLevel(val) /\ UNCHANGED op
    \/ \E val \in BypassInputs : SetParamCabBypass(val) /\ UNCHANGED op
    \/ /\ blocks < MaxBlocks
       /\ blocks' = blocks + 1
       /\ ProcBegin(FRAMES_PER_BLOCK)
       /\ a_start' = [ig |-> input_gain, og |-> output_gain,
                      bypass |-> cab_bypass]
    \/ Activate
    \/ DataPath

SpecRace == InitAudio /\ [][NextRace]_vars

\* one model file and no cabinet
InitGain ==
    /\ InitModel(<<1>>)
    /\ InitCab(<< >>)
    /\ InitRest
    /\ InitAux

\* the levels are set while the gain loops of a process call run, a set_param
\* call falling before a loop, between two of its frames or after it
NextGain ==
    \/ \E t \in DOMAIN loaders : LoaderCreate(t)
    \/ \E t \in DOMAIN loaders : LoaderPublish(t)
    \/ \E t \in DOMAIN loaders : LoaderClear(t)
    \/ \E val \in KnobInputs : SetParamInputLevel(val) /\ UNCHANGED op
    \/ \E val \in KnobInputs : SetParamOutputLevel(val) /\ UNCHANGED op
    \/ /\ blocks < MaxBlocks
       /\ blocks' = blocks + 1
       /\ ProcBegin(FRAMES_PER_BLOCK)
       /\ UNCHANGED a_start
    \/ Activate
    \/ ProcInputRead
    \/ ProcInputLoop
    \/ ProcModel
    \/ ProcCab
    \/ ProcOutputRead
    \/ ProcOutputLoop

SpecGain == InitGain /\ [][NextGain]_vars

\* a file name whose part before the extension has MAX_NAME_LEN + 2 characters
LongName == [i \in 1 .. MAX_NAME_LEN + 2 |-> "x"] \o <<".", "n", "a", "m">>

\* file names a scanned directory may hold
DirPool ==
    { <<"B", ".", "n", "a", "m">>,
      <<"a", ".", "N", "A", "M">>,
      <<".", "h", "i", "d", "d", "e", "n", ".", "n", "a", "m">>,
      <<"c", ".", "t", "x", "t">>,
      <<"b", ".", "j", "s", "o", "n">>,
      <<"d", ".", "x", ".", "n", "a", "m">>,
      <<"C", "a", "b", ".", "W", "A", "V">>,
      LongName }

\* what readdir can return: up to MaxDirEntries different names, in any order
Listings ==
    { l \in UNION { [1 .. n -> DirPool] : n \in 0 .. MaxDirEntries } :
        \A i, j \in DOMAIN l : i # j => l[i] # l[j] }

\* the directory scan_directory is called on
DirPath == <<"m">>

\* capacities passed as max_entries: the one scan_models passes and a small one
ScanCaps == {2, MAX_MODELS}

\* a directory that cannot be opened, or one with any listing; no scan yet
InitScan ==
    /\ InitModel(<< >>)
    /\ InitCab(<< >>)
    /\ InitRest
    /\ a_start = NoStart
    /\ scanned = NoScan
    /\ wav = NoWav
    /\ lc = NoLoadCab
    /\ a_cab = NoApplyCab
    /\ x_all = << >>
    /\ a_loc = NoLoop
    /\ \/ dir_entries = [open |-> FALSE, entries |-> << >>]
       \/ \E l \in Listings : dir_entries = [open |-> TRUE, entries |-> l]

\* a call of scan_directory with the model or the cab filter; op records the
\* capacity and the filter
Scan(kind, cap) ==
    /\ scanned' = scan_directory(dir_entries, DirPath, cap, kind)
    /\ op' = <<"scan_directory", cap, kind>>
    /\ UNCHANGED <<modelVars, cabVars, paramVars, scratchVars, blockVars,
                   loaders, cpc, apc, a_pending, a_old, blocks, ghostVars,
                   a_start, dir_entries, wav, lc, a_cab, x_all, a_loc>>

NextScan == \E kind \in {"models", "cabs"}, cap \in ScanCaps : Scan(kind, cap)

SpecScan == InitScan /\ [][NextScan]_vars

\* the cabs directory of the cabinet races: the two-tap IR, the unit impulse
\* and an IR of three samples
RaceCabs == <<2, 3, 5>>

\* one model file, the first cabinet installed by create
InitCabRace ==
    /\ InitModel(<<1>>)
    /\ InitCab(RaceCabs)
    /\ InitRest
    /\ InitAux

\* the model is loaded once; then cabinets are selected, statement by
\* statement, while blocks are processed
NextCabRace ==
    \/ \E t \in DOMAIN loaders : LoaderCreate(t)
    \/ \E t \in DOMAIN loaders : LoaderPublish(t)
    \/ \E t \in DOMAIN loaders : LoaderClear(t)
    \/ \E idx \in 0 .. Len(RaceCabs) : LoadCabBegin(idx)
    \/ LoadCabIr
    \/ LoadCabLen
    \/ LoadCabHist
    \/ LoadCabPos
    \/ LoadCabFree
    \/ /\ blocks < MaxBlocks
       /\ blocks' = blocks + 1
       /\ ProcBegin(FRAMES_PER_BLOCK)
       /\ UNCHANGED <<a_start, lc>>
    \/ Activate
    \/ ProcInput /\ UNCHANGED lc
    \/ ProcModel
    \/ ProcCabRace
    \/ ProcOutput /\ UNCHANGED lc

SpecCabRace == InitCabRace /\ [][NextCabRace]_vars

\* frame counts of the cursor runs: a full block and a single frame
CursorFrames == {1, FRAMES_PER_BLOCK}

\* as the cabinet races, with apply_cab_ir in two steps: its reads of the
\* instance, then its loop and the write of the cursor
NextCabCursor ==
    \/ \E t \in DOMAIN loaders : LoaderCreate(t)
    \/ \E t \in DOMAIN loaders : LoaderPublish(t)
    \/ \E t \in DOMAIN loaders : LoaderClear(t)
    \/ \E idx \in 0 .. Len(RaceCabs) : LoadCabBegin(idx)
    \/ LoadCabIr
    \/ LoadCabLen
    \/ LoadCabHist
    \/ LoadCabPos
    \/ LoadCabFree
    \/ /\ blocks < MaxBlocks
       /\ blocks' = blocks + 1
       /\ \E f \in CursorFrames : ProcBegin(f)
       /\ UNCHANGED a_start
    \/ Activate
    \/ ProcInput
    \/ ProcModel
    \/ ProcCabRead
    \/ ProcCabLoop
    \/ ProcOutput

SpecCabCursor == InitCabRace /\ [][NextCabCursor]_vars

\* frame counts a host can pass: any int
AnyFrameCounts == {-1, 0, 1, FRAMES_PER_BLOCK, FRAMES_PER_BLOCK + 1}

\* process calls of any frame count on an instance with a model and a cabinet
NextFrames ==
    \/ \E t \in DOMAIN loaders : LoaderCreate(t)
    \/ \E t \in DOMAIN loaders : LoaderPublish(t)
    \/ \E t \in DOMAIN loaders : LoaderClear(t)
    \/ \E f \in AnyFrameCounts :
            /\ blocks < MaxBlocks
            /\ blocks' = blocks + 1
            /\ ProcBegin(f)
            /\ UNCHANGED a_start
    \/ Activate
    \/ ProcInput
    \/ ProcModelSized
    \/ ProcCab
    \/ ProcOutput

SpecFrames == InitCabRace /\ [][NextFrames]_vars

\* cabinets are selected between the steps of the process calls, each
\* load_cab call as a whole
NextCabSwap ==
    \/ \E t \in DOMAIN loaders : LoaderCreate(t)
    \/ \E t \in DOMAIN loaders : LoaderPublish(t)
    \/ \E t \in DOMAIN loaders : LoaderClear(t)
    \/ \E idx \in -1 .. Len(RaceCabs) : SetParamCabIndex(idx) /\ UNCHANGED op
    \/ /\ blocks < MaxBlocks
       /\ blocks' = blocks + 1
       /\ ProcBegin(FRAMES_PER_BLOCK)
       /\ UNCHANGED a_start
    \/ Activate
    \/ DataPath

SpecCabSwap == InitCabRace /\ [][NextCabSwap]_vars

\* cabinet files of the convolution runs: the two-tap IR, the unit impulse and
\* the all-zero IRs of two and three samples
ConvFiles == {2, 3, 4, 5}

\* the convolution engine alone: create has installed the only file of the
\* cabs directory
InitConv ==
    /\ InitModel(<< >>)
    /\ \E f \in ConvFiles : InitCab(<<f>>)
    /\ InitRest
    /\ InitAux

\* signals handed to apply_cab_ir: three 128-sample blocks of different shape
ConvInputs ==
    { [i \in 0 .. FRAMES_PER_BLOCK - 1 |-> ((i * k * 37) % 2001) - 1000] :
        k \in 1 .. 3 }

\* frame counts handed to apply_cab_ir
ConvFrames == {0, 1, FRAMES_PER_BLOCK - 1, FRAMES_PER_BLOCK}

\* apply_cab_ir(inst, x, n) on the caller's signal x, lines 778-804: the result
\* is left in mono_out, as line 979 has it
ApplyCab(x, n) ==
    /\ blocks < MaxBlocks
    /\ blocks' = blocks + 1
    /\ LET r == apply_cab_ir(x, n)
       IN /\ mono_out' = r.audio
          /\ cab_history' = r.hist
          /\ cab_hist_pos' = r.pos
    /\ a_n' = n
    /\ x_all' = x_all \o [i \in 1 .. n |-> x[i - 1]]
    /\ UNCHANGED <<modelVars, cab_ir, cab_ir_len, cab_bypass, cab_name,
                   cab_count, cab_paths, current_cab_index, paramVars, mono_in,
                   audio_inout, frames, access, loaders, cpc, op, apc,
                   a_pending, a_old, ghostVars, a_start, dir_entries, scanned,
                   wav, lc, a_cab, a_loc>>

NextConv == \E x \in ConvInputs, n \in ConvFrames : ApplyCab(x, n)

SpecConv == InitConv /\ [][NextConv]_vars

(* ----------------------------------------------------------------------- *)
(* Claims                                                                   *)
(* ----------------------------------------------------------------------- *)

\* the activation step of the running process call is over
Activated == apc \in {"check", "model", "cab", "output"}

\* C1: once a loader has published a non-null model, the first process call
\* that starts afterwards runs its block through that model or one published
\* later (model ids grow in publication order) and leaves the slot without the
\* model it was to take.
C1_ActivatesPublished ==
    (Activated /\ a_seenpub # nullptr) =>
        /\ model # nullptr
        /\ model.id >= a_seenpub.id
        /\ (pending_model = nullptr \/ pending_model.id > a_seenpub.id)

\* C2: at most one loader task is running at any time.
C2_OneLoader == Cardinality(RunningLoaders) <= 1

\* C2 witness: a load request was dropped while a loader was running.
C2_Witness == op[3] = "skipped" /\ Cardinality(RunningLoaders) = 1

\* C3: after destroy has returned, every model object a loader constructed
\* has been deleted exactly once.
C3_AllDeletedOnce ==
    cpc = "destroyed" => \A m \in Constructed : deletes[m.id] = 1

\* C4: the active-model field and the pending slot never hold the same
\* non-null model.
C4_SingleOwner == ~(model # nullptr /\ model = pending_model)

\* C5: while no model is active, every step of a process call leaves the
\* caller's block as it was passed and the IR, the convolution history and the
\* cursor unchanged.
C5_PassThrough ==
    [][(apc' # apc /\ model' = nullptr) =>
            /\ audio_inout' = Block(frames')
            /\ cab_ir' = cab_ir
            /\ cab_history' = cab_history
            /\ cab_hist_pos' = cab_hist_pos]_vars

\* C5 witness: a process call of more than a block's frames has returned with
\* no model active, an IR loaded and bypass off.
C5_Witness ==
    /\ model = nullptr
    /\ apc = "idle"
    /\ blocks > 0
    /\ frames > FRAMES_PER_BLOCK
    /\ cab_ir # << >>
    /\ ~cab_bypass

\* loader t takes its publish step (line 826) with a failed construction
FailedPublish(t) ==
    /\ loaders[t].pc = "publish"
    /\ loaders[t].new_model = nullptr
    /\ loaders'[t].pc = "clear"

\* C6: a loader whose construction failed publishes null and then clears
\* loading; no step replaces the active model by null, and the active model
\* changes only to the non-null model the slot held.
C6_FailedLoadKeepsModel ==
    [][/\ \A t \in DOMAIN loaders :
            /\ FailedPublish(t) => (pending_model' = nullptr /\ model' = model)
            /\ (loaders[t].pc = "clear" /\ loaders'[t].pc = "done") => ~loading'
       /\ model' # model => (model' # nullptr /\ model' = pending_model)]_vars

\* C6 witness: a load has failed and a process call is running its block
\* through the older model, the slot being empty.
C6_Witness ==
    \E t \in DOMAIN loaders :
        /\ loaders[t].pc = "done"
        /\ loaders[t].new_model = nullptr
        /\ model # nullptr
        /\ model.id < t
        /\ pending_model = nullptr
        /\ apc = "output"

\* C7: a load request made while loading is true leaves the target path, the
\* model name, current_model_index, the pending slot, the loading flag and the
\* loader in flight as they were.
C7_DroppedWithoutEffect ==
    [][loading =>
        /\ \A idx \in IndexInputs : SetParamModelIndex(idx) =>
                UNCHANGED <<model_path, model_name, current_model_index,
                            pending_model, loading, loaders>>
        /\ \A path \in Files : SetParamModel(path) =>
                UNCHANGED <<model_path, model_name, current_model_index,
                            pending_model, loading, loaders>>]_vars

\* the controller's last call was set_param model_index=idx, and the load it
\* requested was dropped or has failed
RequestLost(idx) ==
    /\ op[1] = "model_index"
    /\ op[2] = idx
    /\ \/ op[3] = "skipped"
       \/ /\ op[3] = "started"
          /\ loaders[Len(loaders)].pc = "done"
          /\ loaders[Len(loaders)].new_model = nullptr

\* C8: after the load requested by set_param model_index=idx failed or was
\* dropped, the same call made again once loading is false starts a load of
\* catalog entry idx.
C8_RetryStartsLoad ==
    [][\A idx \in IndexInputs :
        (RequestLost(idx) /\ ~loading /\ SetParamModelIndex(idx)) =>
            /\ loading'
            /\ model_path' = model_paths[idx + 1]
            /\ Len(loaders') = Len(loaders) + 1]_vars

\* C9: set_param model_index=idx requests a load exactly when idx is in range
\* and differs from current_model_index (the request starts a loader of
\* catalog entry idx, or is dropped while loading); otherwise it starts no load
\* and changes no instance state.
C9_IndexRequest ==
    [][\A idx \in IndexInputs : SetParamModelIndex(idx) =>
        IF idx >= 0 /\ idx < model_count /\ idx # current_model_index
        THEN /\ op'[3] # "none"
             /\ current_model_index' = idx
             /\ IF loading
                THEN UNCHANGED <<loaders, loading, model_path, model_name>>
                ELSE /\ loading'
                     /\ model_path' = model_paths[idx + 1]
                     /\ Len(loaders') = Len(loaders) + 1
                     /\ loaders'[Len(loaders')].pc = "create"
        ELSE /\ op'[3] = "none"
             /\ UNCHANGED <<modelVars, cabVars, paramVars, scratchVars,
                            blockVars, loaders>>]_vars

\* C9 witness: set_param model_index=1 has selected entry 1 and started its load.
C9_Witness ==
    /\ op = <<"model_index", 1, "started">>
    /\ current_model_index = 1
    /\ loading
    /\ model_path = model_paths[2]

\* C10: a process call of f >= 0 frames uses only the block's samples of the
\* frames below min(f, 128) and scratch indices below 128, and leaves the
\* samples of every frame from 128 on as they were passed.
C10_Footprint ==
    LET n == IF frames > 128 THEN 128 ELSE frames
    IN /\ access.buf < 2 * n
       /\ access.scratch < 128
       /\ access.scratch < n
       /\ \A j \in DOMAIN audio_inout :
            j >= 2 * n => audio_inout[j] = Block(frames)[j]

\* C10 witness: a call of 129 frames has returned with a model active, after
\* using the samples of 128 frames.
C10_Witness ==
    /\ model # nullptr
    /\ apc = "idle"
    /\ frames = FRAMES_PER_BLOCK + 1
    /\ access.buf = 2 * FRAMES_PER_BLOCK - 1
    /\ access.scratch = FRAMES_PER_BLOCK - 1
    /\ audio_inout # Block(frames)

\* C11: when the controller's load_cab cannot decode the file, the IR, its
\* length, the history, the cursor, the cabinet name and the cabinet index
\* stay as they were, so the same index can be requested again
C11_DecodeFailureKeepsCab ==
    [][\A idx \in CabIndexInputs :
          (/\ SetParamCabIndex(idx)
           /\ idx >= 0 /\ idx < cab_count /\ idx # current_cab_index
           /\ load_wav_ir(cab_paths[idx + 1]) = << >>)
          => /\ UNCHANGED <<cab_ir, cab_ir_len, cab_history, cab_hist_pos,
                            cab_name, current_cab_index>>
             /\ idx # current_cab_index']_vars

\* a cabinet is installed and the last call was a cab_index request for a
\* file that does not decode
C11_Witness ==
    /\ op[1] = "cab_index"
    /\ op[2] >= 0 /\ op[2] < cab_count
    /\ load_wav_ir(cab_paths[op[2] + 1]) = << >>
    /\ cab_ir # << >>
    /\ current_cab_index >= 0
    /\ current_cab_index # op[2]

\* C12: with bypass on, the stage after the model leaves the model's output,
\* the IR, the history and the cursor as they are - the model has run on every
\* frame of the block; and whenever the bypass flag changes, nothing else of
\* the instance changes
C12_BypassGatesConvolutionOnly ==
    [][/\ (apc = "cab" /\ apc' = "output" /\ cab_bypass)
          => /\ UNCHANGED <<cab_ir, cab_ir_len, cab_history, cab_hist_pos>>
             /\ \A i \in 0 .. a_n - 1 :
                    mono_out'[i] = NeuralProcess(model, mono_in[i])
       /\ (cab_bypass' # cab_bypass)
          => UNCHANGED <<modelVars, cab_ir, cab_ir_len, cab_history,
                         cab_hist_pos, cab_name, cab_count, cab_paths,
                         current_cab_index, paramVars, scratchVars, blockVars,
                         loaders, cpc, apc, a_pending, a_old>>]_vars

\* a block of 128 frames has passed the bypassed convolution stage: an IR is
\* installed, its history is still all zero and the model's output is not
C12_Witness ==
    /\ apc = "output"
    /\ cab_bypass
    /\ cab_ir # << >>
    /\ a_n = FRAMES_PER_BLOCK
    /\ cab_history = Zeros(cab_ir_len + FRAMES_PER_BLOCK)
    /\ \E i \in 0 .. a_n - 1 : mono_out[i] # 0
    /\ \A i \in 0 .. a_n - 1 : mono_out[i] = NeuralProcess(model, mono_in[i])

\* C13: with the IR <<1.0>> apply_cab_ir returns every sample as it was given;
\* with an IR of zeros only, every sample it returns is 0
C13_IdentityAndSilence ==
    [][\A x \in ConvInputs, n \in ConvFrames :
          ApplyCab(x, n)
          => /\ (cab_ir = <<One>>)
                => \A i \in 0 .. n - 1 : mono_out'[i] = x[i]
             /\ (cab_ir # << >> /\ \A k \in DOMAIN cab_ir : cab_ir[k] = 0)
                => \A i \in 0 .. n - 1 : mono_out'[i] = 0]_vars

\* two full blocks went through the unit impulse: the cursor has wrapped
\* around the 129-entry history and the output is not silent
C13_Witness ==
    /\ cab_ir = <<One>>
    /\ blocks = 2
    /\ a_n = FRAMES_PER_BLOCK
    /\ cab_hist_pos = 2 * FRAMES_PER_BLOCK - (FRAMES_PER_BLOCK + 1)
    /\ \E i \in 0 .. a_n - 1 : mono_out[i] # 0

\* C14: every stage of a process call works with the parameter values the
\* call found when it started: the input loop scales by the input gain of
\* that moment, the convolution stage is gated by the bypass flag of that
\* moment, the output loop scales by the output gain of that moment
C14_ParamsOfBlockStart ==
    [][/\ (apc = "check" /\ apc' = "model")
          => \A i \in 0 .. a_n' - 1 :
                mono_in'[i] = ToMono(audio_inout[2 * i], audio_inout[2 * i + 1],
                                     a_start.ig)
       /\ (apc = "cab" /\ apc' = "output" /\ a_start.bypass)
          => UNCHANGED <<mono_out, cab_history, cab_hist_pos>>
       /\ (apc = "output" /\ apc' = "idle")
          => \A i \in 0 .. a_n - 1 :
                /\ audio_inout'[2 * i] = ToInt16(mono_out[i], a_start.og)
                /\ audio_inout'[2 * i + 1] = ToInt16(mono_out[i], a_start.og)
      ]_vars

\* C15: when a process call with an active model has returned, the left and
\* the right sample of every processed frame are equal and lie in
\* -32767 .. 32767
C15_ClippedMonoOutput ==
    (apc = "idle" /\ access.buf >= 0)
    => \A i \in 0 .. a_n - 1 :
          /\ audio_inout[2 * i] = audio_inout[2 * i + 1]
          /\ audio_inout[2 * i] >= -32767
          /\ audio_inout[2 * i] <= 32767

\* a processed block of 128 frames that was clipped at both ends of the range
\* and holds samples in between
C15_Witness ==
    /\ apc = "idle"
    /\ access.buf >= 0
    /\ a_n = FRAMES_PER_BLOCK
    /\ \E i \in 0 .. a_n - 1 : audio_inout[2 * i] = 32767
    /\ \E i \in 0 .. a_n - 1 : audio_inout[2 * i] = -32767
    /\ \E i \in 0 .. a_n - 1 :
          audio_inout[2 * i] > 0 /\ audio_inout[2 * i] < 32767

\* C16: after create both levels are 0.5 and bypass is off; in every state
\* both levels lie in 0 .. 1 and each gain is knob_to_gain of its level
C16_LevelsAndGains ==
    /\ (op[1] = "create")
       => (input_level = 50 /\ output_level = 50 /\ ~cab_bypass)
    /\ input_level >= 0 /\ input_level <= 100
    /\ output_level >= 0 /\ output_level <= 100
    /\ input_gain = knob_to_gain(input_level)
    /\ output_gain = knob_to_gain(output_level)

\* the last call set the output level with a value above 1, after the input
\* level was set with a value below 0: both were clamped
C16_Witness ==
    /\ op = <<"output_level", 150, "none">>
    /\ output_level = 100
    /\ input_level = 0

\* C17: the knob positions 0, 0.5 and 1 are mapped to -24 dB, -6 dB and
\* +12 dB, and the gains set from them are 10^(-24/20) = 0.063,
\* 10^(-6/20) = 0.501 and 10^(12/20) = 3.981
C17_KnobToGain ==
    /\ KnobDb(input_level) = -2400 + 36 * input_level
    /\ KnobDb(0) = -2400 /\ KnobDb(50) = -600 /\ KnobDb(100) = 1200
    /\ (input_level = 0) => (input_gain = 63)
    /\ (input_level = 50) => (input_gain = 501)
    /\ (input_level = 100) => (input_gain = 3981)
    /\ (output_level = 0) => (output_gain = 63)
    /\ (output_level = 50) => (output_gain = 501)
    /\ (output_level = 100) => (output_gain = 3981)

\* set_param has applied knob_to_gain to the knob positions 1 and 0
C17_Witness ==
    /\ op[1] \in {"input_level", "output_level"}
    /\ input_level = 100
    /\ input_gain = 3981
    /\ output_level = 0
    /\ output_gain = 63

\* a name in lower case
Lowered(str) == [i \in DOMAIN str |-> tolower(str[i])]

\* the last extension of a file name, with its dot; << >> when it has none
LastExt(e) == IF strrchr(e, ".") = 0 THEN << >> ELSE StrFrom(e, strrchr(e, "."))

\* the file name without its last extension
Stem(e) == IF strrchr(e, ".") = 0 THEN e ELSE SubSeq(e, 1, strrchr(e, ".") - 1)

\* the entries a scan is to return: not hidden, with an extension of the kind
Wanted(kind, e) ==
    /\ e[1] # "."
    /\ Lowered(LastExt(e)) \in
          (IF kind = "models"
           THEN { <<".", "n", "a", "m">>, <<".", "j", "s", "o", "n">>,
                  <<".", "a", "i", "d", "a", "x">> }
           ELSE { <<".", "w", "a", "v">>, <<".", "i", "r">> })

\* what C18 says of a finished scan; name(e) is the display name expected for
\* the entry e
ScanReturns(name(_)) ==
    (op[1] = "scan_directory")
    => LET cap == op[2]
           kind == op[3]
           want == SelectSeq(dir_entries.entries, LAMBDA e : Wanted(kind, e))
           kept == SubSeq(want, 1, IF Len(want) > cap THEN cap ELSE Len(want))
           n == scanned.count
       IN /\ n = Len(kept)
          /\ n <= MAX_MODELS
          /\ Len(scanned.names) = n
          /\ Len(scanned.paths) = n
          /\ { <<scanned.names[i], scanned.paths[i]>> : i \in 1 .. n }
                = { <<name(kept[i]), DirPath \o <<"/">> \o kept[i]>> :
                       i \in 1 .. Len(kept) }
          /\ \A i, j \in 1 .. n :
                i < j => strcmp(Lowered(scanned.names[i]),
                                Lowered(scanned.names[j])) <= 0
          /\ (/\ kind = "models"
              /\ cap = MAX_MODELS
              /\ { dir_entries.entries[i] : i \in DOMAIN dir_entries.entries }
                    = { <<"B", ".", "n", "a", "m">>,
                        <<"a", ".", "N", "A", "M">>,
                        <<".", "h", "i", "d", "d", "e", "n", ".", "n", "a", "m">>,
                        <<"c", ".", "t", "x", "t">> })
             => scanned.names = << <<"a">>, <<"B">> >>

\* the first MAX_NAME_LEN - 1 characters of the name without its extension
StemCut(e) ==
    SubSeq(Stem(e), 1, IF Len(Stem(e)) > MAX_NAME_LEN - 1
                       THEN MAX_NAME_LEN - 1 ELSE Len(Stem(e)))

\* C18 as stated: scan_directory returns the entries that are not hidden and
\* have an extension of the kind (the first max_entries of them), each with
\* its name without the last extension and with its own path, in ascending
\* order of the lower-cased names; {B.nam, a.NAM, .hidden.nam, c.txt} gives
\* a, B
C18_ScanDirectory == ScanReturns(Stem)

\* C18 amended: the same, with the display name being the first 127
\* characters of the file name without its last extension
C18_ScanDirectoryCut == ScanReturns(StemCut)

\* a directory holding the example's files and a name too long for a display
\* name, read in this order and scanned for models
C18_Witness ==
    /\ op = <<"scan_directory", MAX_MODELS, "models">>
    /\ dir_entries.entries =
          << LongName,
             <<"B", ".", "n", "a", "m">>,
             <<"a", ".", "N", "A", "M">>,
             <<".", "h", "i", "d", "d", "e", "n", ".", "n", "a", "m">> >>
    /\ scanned.count = 3
    /\ scanned.names = << <<"a">>, <<"B">>, [i \in 1 .. MAX_NAME_LEN - 1 |-> "x"] >>
    /\ scanned.paths = << <<"m", "/", "a", ".", "N", "A", "M">>,
                          <<"m", "/", "B", ".", "n", "a", "m">>,
                          <<"m", "/">> \o LongName >>

\* the fields of nam_instance_t
instVars == <<modelVars, cabVars, paramVars, scratchVars>>

\* C19: a set_param call with a key it does not know changes no field of the
\* instance and starts no loader thread; a get_param call with a key it does
\* not know returns -1 and changes no field of the instance
C19_UnknownKeyNoOp ==
    [][ /\ (op' # op /\ op'[1] \in SetUnknownKeys)
           => UNCHANGED <<instVars, loaders>>
        /\ (op' # op /\ op'[1] = "get_param" /\ op'[2] \in GetUnknownKeys)
           => /\ op'[4] = -1
              /\ UNCHANGED <<instVars, loaders>> ]_vars

\* get_param(inst, "volume", buf, 64) has returned -1 on an instance whose
\* first model is published and whose catalog holds two models
C19_Witness ==
    /\ op = <<"get_param", "volume", 64, -1, 0, 0, TRUE>>
    /\ pending_model # nullptr
    /\ model_count = 2

\* C20: a get_param call stores no byte at or after buf + buf_len, and a
\* value it returns that is not negative is the number of characters it
\* stored
C20_BoundedGet ==
    (op[1] = "get_param")
    => /\ op[6] <= op[3]
       /\ (op[4] >= 0 => op[4] = op[5])

\* C21: load_wav_ir on any header ends without a fault; it returns the
\* number of samples of the data chunk (at most MAX_IR_LEN) when the encoding
\* is one of PCM 16/24/32 and float 32/64, and 0 otherwise, and on 0 load_cab
\* leaves no cabinet attached
C21_HeaderDecodesOrFails ==
    wav.done
    => /\ ~wav.fault
       /\ (~WavSupported(wav.hdr) \/ wav.hdr.chunks # "fmt_data") => wav.n = 0
       /\ wav.n = 0 => (cab_ir = << >> /\ current_cab_index = -1)
       /\ wav.n > 0 => (cab_ir_len = wav.n /\ current_cab_index = 0)

\* C22: while the instance exists and loading is false, the model the last
\* loader constructed is in the pending slot or is the active model
C22_FinishedModelVisible ==
    LET last == loaders[Len(loaders)]
    IN (/\ cpc # "destroyed"
        /\ ~loading
        /\ Len(loaders) > 0
        /\ last.pc = "done"
        /\ last.new_model # nullptr)
       => (pending_model = last.new_model \/ model = last.new_model)

\* C23: the store of line 957 erases no model: a model that is in the slot
\* when process clears it, and is not the one process took, is in the slot or
\* active afterwards
C23_AtomicTake ==
    [][(/\ apc = "clear"
        /\ apc' = "release"
        /\ pending_model # nullptr
        /\ pending_model # a_pending)
       => (pending_model' = pending_model \/ model' = pending_model)]_vars

\* C24: when a loader stores its result, the slot holds no model that waits
\* for activation: it is empty or holds the model process has just made active
C24_PublishIntoFreeSlot ==
    [][(\E t \in DOMAIN loaders :
            /\ t \in DOMAIN loaders'
            /\ loaders[t].pc = "publish"
            /\ loaders'[t].pc = "clear")
       => (pending_model = nullptr \/ pending_model = model)]_vars

\* C25: the step that frees the instance is taken with loading false, and
\* once the instance is freed every loader has returned, so that no loader
\* step follows the free
C25_NoLoaderAfterFree ==
    /\ cpc = "destroyed" => (~loading /\ RunningLoaders = {})
    /\ (cpc = "wait" /\ loading) => Cardinality(RunningLoaders) = 1

\* destroy has returned after three loads, the last of which constructed a
\* model that is deleted with the instance
C25_Witness ==
    /\ cpc = "destroyed"
    /\ Len(loaders) = MaxLoads
    /\ loaders[MaxLoads].new_model # nullptr
    /\ deletes[MaxLoads] = 1

\* C27: the active model has never been deleted while the instance exists, so
\* Process runs on a live model; process deletes the replaced model when the
\* active reference already points to the new one and no sample of the block
\* has been processed, and that model has then been deleted once
C27_ReleaseAfterSwitch ==
    [][/\ (model' # nullptr /\ cpc' # "destroyed") => deletes'[model'.id] = 0
       /\ (apc = "release" /\ apc' = "check" /\ a_old # nullptr)
          => /\ model = a_pending
             /\ model # a_old
             /\ a_n = 0
             /\ deletes[a_old.id] = 0
             /\ deletes'[a_old.id] = 1
             /\ \A i \in DOMAIN deletes : i # a_old.id => deletes'[i] = deletes[i]
       /\ (apc' # apc /\ \E i \in DOMAIN deletes : deletes'[i] # deletes[i])
          => (apc = "release")]_vars

\* a process call has replaced model 1 by model 2, deleted model 1 and run
\* the block through model 2
C27_Witness ==
    /\ apc = "cab"
    /\ model.id = 2
    /\ deletes[1] = 1
    /\ deletes[2] = 0

\* C28: the active-model reference changes only in the first step of a
\* process call: never in a loader, set_param or destroy step, and never from
\* that first step to the end of the call
C28_ActiveChangesAtBlockTop ==
    [][model' # model => (apc = "idle" /\ apc' = "clear")]_vars

\* a process call is past its activation step with the model it made active,
\* while a later load has already published the next model
C28_Witness ==
    /\ apc = "output"
    /\ model.id = 1
    /\ pending_model.id = 2

\* C26: a destroy call that has started returns: the wait for loading ends
\* and the instance is freed
C26_DestroyTerminates == (cpc = "wait") ~> (cpc = "destroyed")

\* the execution context a step belongs to
AudioStep == apc' # apc
ControllerStep == op' # op \/ lc' # lc

\* C29: of the cabinet and model fields, each has one writing context: the
\* convolution cursor and the active model are assigned in steps of the audio
\* thread only, the IR pointer, the IR length and the history pointer in steps
\* of the controller only
C29_SingleWriters ==
    [][/\ cab_hist_pos' # cab_hist_pos => AudioStep
       /\ model' # model => AudioStep
       /\ (cab_ir' # cab_ir \/ cab_ir_len' # cab_ir_len
              \/ HistCapacity' # HistCapacity) => ControllerStep]_vars

\* cab_ir, cab_ir_len and cab_history are all unset, or the IR has cab_ir_len
\* samples and the history cab_ir_len + 128
Paired ==
    \/ cab_ir = << >> /\ cab_ir_len = 0 /\ cab_history = << >>
    \/ /\ cab_ir # << >>
       /\ Len(cab_ir) = cab_ir_len
       /\ HistCapacity = cab_ir_len + FRAMES_PER_BLOCK

\* C30: when the audio thread is about to read cab_ir, cab_ir_len and
\* cab_history for the convolution stage, the three form a matching pair
C30_MatchingPair == apc = "cab" => Paired

C32_CursorInRing ==
    cab_ir # << >>
    => 0 <= cab_hist_pos /\ cab_hist_pos < cab_ir_len + FRAMES_PER_BLOCK

\* the direct convolution sum for output sample m (counted from 0) of the
\* input X (a sequence) through the IR h: the terms h[k] * X[m - k] for k in
\* 0 .. min(m, Len(h) - 1), from term k on
RECURSIVE DirectSum(_, _, _, _)
DirectSum(h, X, m, k) ==
    IF k > m \/ k >= Len(h) THEN 0
    ELSE Trunc(h[k + 1] * X[m - k + 1], One) + DirectSum(h, X, m, k + 1)

\* C33: every output sample of an apply_cab_ir call equals the direct
\* convolution sum of the IR with all the input handed over since the IR was
\* loaded, whatever the block sizes were and wherever the cursor has wrapped
C33_DirectConvolution ==
    [][\A x \in ConvInputs, n \in ConvFrames :
          ApplyCab(x, n)
          => \A i \in 0 .. n - 1 :
                mono_out'[i] = DirectSum(cab_ir, x_all', Len(x_all) + i, 0)]_vars

\* two full blocks went through the two-tap IR: 256 samples on a ring of 130
\* entries, the cursor has wrapped and the second block's output is not silent
C33_Witness ==
    /\ cab_ir_len = 2
    /\ \E k \in DOMAIN cab_ir : cab_ir[k] # 0
    /\ Len(x_all) = 2 * FRAMES_PER_BLOCK
    /\ cab_hist_pos = 2 * FRAMES_PER_BLOCK - (2 + FRAMES_PER_BLOCK)
    /\ \E i \in 0 .. FRAMES_PER_BLOCK - 1 : mono_out[i] # 0

\* the float mono_out[0 .. n - 1] as a sequence
AsSeq(buf, n) == [i \in 1 .. n |-> buf[i - 1]]

\* C34: a load_cab call that installs an IR leaves a history of
\* cab_ir_len + 128 zeros and the cursor at 0; the convolution stage that
\* finds the history so computes each output sample from the samples of its
\* own block alone, as the direct sum with the new IR
C34_FreshHistory ==
    [][/\ current_cab_index' # current_cab_index
          => /\ cab_history' = Zeros(cab_ir_len' + FRAMES_PER_BLOCK)
             /\ cab_hist_pos' = 0
             /\ Len(cab_ir') = cab_ir_len'
       /\ (/\ apc = "cab" /\ apc' = "output" /\ CabStageOn
           /\ cab_hist_pos = 0
           /\ cab_history = Zeros(cab_ir_len + FRAMES_PER_BLOCK))
          => \A i \in 0 .. a_n - 1 :
                mono_out'[i] = DirectSum(cab_ir, AsSeq(mono_out, a_n), i, 0)]_vars

\* the unit impulse has replaced the cabinet of create, and of the two blocks
\* processed one went through the new history, starting on the cursor 0
C34_Witness ==
    /\ current_cab_index = 1
    /\ cab_ir_len = 1
    /\ blocks = 2
    /\ apc = "output"
    /\ cab_hist_pos = FRAMES_PER_BLOCK
    /\ \E i \in 0 .. a_n - 1 : mono_out[i] # 0

\* the linear gains the knobs can be set to
GainValues == { knob_to_gain(clampf(val, 0, 100)) : val \in KnobInputs }

\* C35: when the input loop of a process call is done, one gain value scaled
\* every frame of mono_in, and when the output loop is done one gain value
\* scaled every frame of the caller's buffer, whatever the levels were set to
\* while the loops ran
C35_OneGainPerLoop ==
    [][/\ (apc = "in_loop" /\ apc' = "model")
          => \E g \in GainValues :
                \A i \in 0 .. a_n - 1 :
                   mono_in'[i] = ToMono(audio_inout[2 * i],
                                        audio_inout[2 * i + 1], g)
       /\ (apc = "out_loop" /\ apc' = "idle")
          => \E g \in GainValues :
                \A i \in 0 .. a_n - 1 :
                   /\ audio_inout'[2 * i] = ToInt16(mono_out[i], g)
                   /\ audio_inout'[2 * i + 1] = ToInt16(mono_out[i], g)]_vars

\* a process call of 128 frames with a model has returned, and output_level
\* was set between two frames of its output loop
C35_Witness ==
    /\ apc = "idle"
    /\ model # nullptr
    /\ a_n = FRAMES_PER_BLOCK
    /\ a_loc.i = FRAMES_PER_BLOCK
    /\ Cardinality(a_loc.seen) = 2

\* C36: load_wav_ir never returns more than MAX_IR_LEN samples; for a header
\* with fmt and data chunks, a supported encoding and at least one channel it
\* returns the smaller of data_size / (bytes_per_sample * channels) and
\* MAX_IR_LEN, so that a longer file is cut; and an installed IR has between 1
\* and MAX_IR_LEN samples
C36_TruncatedToCapacity ==
    /\ wav.done
       => /\ wav.n >= 0 /\ wav.n <= MAX_IR_LEN
          /\ (/\ wav.hdr.chunks = "fmt_data"
              /\ WavSupported(wav.hdr)
              /\ WavDivisor(wav.hdr) > 0)
             => /\ ~wav.fault
                /\ LET q == wav.hdr.data_size \div WavDivisor(wav.hdr)
                   IN wav.n = IF q < MAX_IR_LEN THEN q ELSE MAX_IR_LEN
    /\ cab_ir # << >>
       => /\ cab_ir_len >= 1 /\ cab_ir_len <= MAX_IR_LEN
          /\ Len(cab_ir) = cab_ir_len

\* a 16-bit mono PCM file announcing 20000 samples was decoded and installed
\* with MAX_IR_LEN samples
C36_Witness ==
    /\ wav.done
    /\ wav.hdr.fmt = 1 /\ wav.hdr.bits = 16 /\ wav.hdr.ch = 1
    /\ wav.hdr.data_size \div 2 > MAX_IR_LEN
    /\ wav.n = MAX_IR_LEN
    /\ cab_ir_len = MAX_IR_LEN
    /\ current_cab_index = 0

\* C37: the selected model and the selected cabinet are entries of their
\* catalogs or -1: -1 <= current_model_index < model_count and
\* -1 <= current_cab_index < cab_count
C37_IndexInCatalog ==
    /\ -1 <= current_model_index /\ current_model_index < model_count
    /\ -1 <= current_cab_index /\ current_cab_index < cab_count

\* C38: the frame count v2_process_block hands to the model and to the
\* convolution is within 0 .. 128, whatever frame count the host passed
C38_FrameCountInRange ==
    apc \in {"model", "cab"} => (a_n >= 0 /\ a_n <= FRAMES_PER_BLOCK)

\* C39: model_path and model_name are written, and a loader is started, only
\* in steps that find loading false and no loader running; a loader that has
\* yet to read model_path (lines 811-822) finds loading true, and the step in
\* which it reads leaves the path as it is
C39_PathStableWhileLoading ==
    [][/\ (model_path' # model_path \/ model_name' # model_name
             \/ Len(loaders') > Len(loaders))
          => (~loading /\ RunningLoaders = {})
       /\ \A t \in DOMAIN loaders :
             loaders[t].pc = "create"
             => /\ loading
                /\ loaders'[t].pc = "publish"
                   => /\ UNCHANGED <<model_path, model_name>>
                      /\ loaders'[t].new_model # nullptr
                         => loaders'[t].new_model.path = model_path]_vars

\* a loader has not read its path yet, and a request for another file was
\* dropped meanwhile: model_path is still the file the loader was started for
C39_Witness ==
    /\ Len(loaders) > 0
    /\ loaders[Len(loaders)].pc = "create"
    /\ loading
    /\ op[1] = "model"
    /\ op[3] = "skipped"
    /\ op[2] # model_path

====
